---- MODULE Spec2Model ----
(***************************************************************************)
(* Configuration-driven CDK infrastructure set-up: the configuration       *)
(* loader of app.py, the stack's stage order, and the role, function and   *)
(* route resolvers (constructs), modelled as one state machine.            *)
(*                                                                         *)
(* Conventions.  A Python dict that the code iterates is a sequence of     *)
(* [k, v] pairs with distinct keys (insertion order); a dict that is only  *)
(* looked up by key is a TLA+ function.  None and a missing key are the    *)
(* value NoneV; Python truthiness is Truthy.  A CDK constructor is taken   *)
(* to return an entity built from its arguments; the source gives no       *)
(* other behaviour for it.                                                 *)
(***************************************************************************)
EXTENDS Integers, Sequences, FiniteSets, TLC

VARIABLES
    pc,                              \* position in app.py / AwsCdkInfraSetupStack.__init__
    run,                             \* which run of the program this is (1 or 2)
    ctx,                             \* cdk.json context: batch |-> the path list read for it
    parsed_iam_role_configs,         \* app.py:143
    parsed_lambda_function_configs,  \* app.py:144
    parsed_rest_api_configs,         \* app.py:145
    parsed_http_api_configs,         \* app.py:146
    parsed_user_pool_configs,        \* app.py:147
    last_load,                       \* the last load_config_files call: arguments and outcome
    roles,                           \* IamRoleConstruct.roles
    role_idx,                        \* next record of IamRoleConstruct's loop
    lambda_functions,                \* LambdaFunctionConstruct.lambda_functions
    default_roles,                   \* default roles constructed in LambdaFunctionConstruct's scope
    fn_idx,                          \* next record of LambdaFunctionConstruct's loop
    lambda_map,                      \* the stack's copy handed to the route resolvers
    rest_apis,                       \* one entry per RestApiGatewayConstruct built
    http_apis,                       \* one entry per HttpApiGatewayConstruct built
    log,                             \* diagnostics printed so far
    raised,                          \* the exception that escaped to the top level ("" if none)
    prev,                            \* the outputs of run 1, kept for comparison in run 2
    table,                           \* the DynamoDB table of the handlers: the coffeeIds stored
    last_call,                       \* the last create_coffee call: its event and the backend's answer
    response                         \* what that call returned (or the exception that left it)

vars == <<pc, run, ctx, parsed_iam_role_configs, parsed_lambda_function_configs,
          parsed_rest_api_configs, parsed_http_api_configs, parsed_user_pool_configs,
          last_load, roles, role_idx, lambda_functions, default_roles, fn_idx,
          lambda_map, rest_apis, http_apis, log, raised, prev, table, last_call, response>>

\* the state of the deployed create handler; the synthesis program leaves it alone
handlerVars == <<table, last_call, response>>

\* ------------------------------------------------------------------ bounds

MaxRoleFiles == 2

MaxLambdaFiles == 2

MaxRecords == 2

MaxResources == 2

\* ------------------------------------------------------------ Python values

NoneV == "None"

\* truthiness of a string-or-None value: None and "" are falsy
Truthy(v) == v \notin {NoneV, ""}

Range(s) == {s[i] : i \in DOMAIN s}

SeqsUpTo(S, n) == UNION {[1..k -> S] : k \in 0..n}

\* dict.get(key, default) on a sequence of [k, v] pairs
DictHas(d, key) == \E i \in DOMAIN d : d[i].k = key

DictGet(d, key, default) ==
    IF DictHas(d, key) THEN d[CHOOSE i \in DOMAIN d : d[i].k = key].v ELSE default

\* d[key] = value: an existing key keeps its position, a new key is appended
DictPut(d, key, value) ==
    IF DictHas(d, key)
    THEN [i \in DOMAIN d |-> IF d[i].k = key THEN [k |-> key, v |-> value] ELSE d[i]]
    ELSE Append(d, [k |-> key, v |-> value])

\* ------------------------------------------------------------------- paths
\* A path is its directory segments, the stem and the extension of its last
\* segment, and whether it starts at the root.

RelPath(dirs, stem, ext) == [abs |-> FALSE, dirs |-> dirs, stem |-> stem, ext |-> ext]

AbsPath(dirs, stem, ext) == [abs |-> TRUE, dirs |-> dirs, stem |-> stem, ext |-> ext]

project_root == <<"proj">>

\* os.path.join(project_root, file_path) unless os.path.isabs(file_path)
resolve_file_path(file_path, root) ==
    IF file_path.abs THEN file_path
    ELSE [file_path EXCEPT !.abs = TRUE, !.dirs = root \o file_path.dirs]

\* os.path.splitext(os.path.basename(p))[0]
BaseNameNoExt(p) == p.stem

\* ---------------------------------------------------------------- the disk
\* The files under the project root.  Each configuration family has its own
\* directory; a path that is no key of its family's disk does not exist.

NoPath == RelPath(<<>>, "", "")

PolicyPath(stem) == RelPath(<<"config", "policies">>, stem, ".json")

RolePath(stem) == RelPath(<<"config", "roles">>, stem, ".json")

LambdaPath(stem) == RelPath(<<"config", "lambdas">>, stem, ".json")

RestPath(stem) == RelPath(<<"config", "rest">>, stem, ".json")

HttpPath(stem) == RelPath(<<"config", "http">>, stem, ".json")

PoolPath(stem) == RelPath(<<"config", "cognito">>, stem, ".json")

OnDisk(p) == resolve_file_path(p, project_root)

\* policy documents: st is "json" (parses) or "malformed" (json.load raises)
PolicyDisk ==
    (OnDisk(PolicyPath("trust")) :> [st |-> "json", doc |-> "trust-document"]) @@
    (OnDisk(PolicyPath("s3-read")) :> [st |-> "json", doc |-> "s3-read-document"]) @@
    (OnDisk(PolicyPath("broken")) :> [st |-> "malformed", doc |-> NoneV])

RoleDoc(name, trust, inline, managed) ==
    [role_name |-> name, trust_policy_path |-> trust,
     inline_policy_files |-> inline, managed_policies |-> managed]

BasicArn == "arn:aws:iam::aws:policy/service-role/AWSLambdaBasicExecutionRole"

DynamoArn == "arn:aws:iam::aws:policy/AmazonDynamoDBFullAccess"

\* role documents: st "notdict" is valid JSON that is not an object
RoleDisk ==
    (OnDisk(RolePath("api-role")) :>
        [st |-> "json",
         doc |-> RoleDoc("api-role", NoPath, <<>>, <<[k |-> "basic", v |-> BasicArn]>>)]) @@
    (OnDisk(RolePath("worker")) :>
        [st |-> "json",
         doc |-> RoleDoc("worker-role", PolicyPath("trust"),
                         <<PolicyPath("s3-read"), PolicyPath("gone")>>, <<>>)]) @@
    (OnDisk(RolePath("api-role-v2")) :>
        [st |-> "json",
         doc |-> RoleDoc("api-role", PolicyPath("broken"), <<PolicyPath("s3-read")>>,
                         <<[k |-> "dynamo", v |-> DynamoArn]>>)]) @@
    (OnDisk(RolePath("noname")) :>
        [st |-> "json", doc |-> RoleDoc(NoneV, NoPath, <<>>, <<>>)]) @@
    (OnDisk(RolePath("list")) :>
        [st |-> "notdict", doc |-> RoleDoc(NoneV, NoPath, <<>>, <<>>)]) @@
    (OnDisk(RolePath("broken")) :>
        [st |-> "malformed", doc |-> RoleDoc(NoneV, NoPath, <<>>, <<>>)])

RoleFiles == {RolePath(s) : s \in {"api-role", "worker", "api-role-v2", "noname",
                                   "list", "broken", "absent"}}

\* Optional non-string values: <<>> is "absent", <<v>> is "present with value v"
OptGet(o, default) == IF o = <<>> THEN default ELSE o[1]

\* code artifacts that exist (os.path.exists)
CodeDisk == {AbsPath(<<"proj", "dist">>, "get", ".zip"),
             AbsPath(<<"proj", "dist">>, "create", ".zip"),
             AbsPath(<<"opt", "artifacts">>, "create", ".zip")}

ZipRelOk == RelPath(<<"dist">>, "get", ".zip")

ZipAbsOk == AbsPath(<<"opt", "artifacts">>, "create", ".zip")

ZipRelGone == RelPath(<<"dist">>, "lost", ".zip")

\* exists only below the project root, and is given as an absolute path
ZipAbsGone == AbsPath(<<"dist">>, "get", ".zip")

\* a function document {service: {...}}
Service(fn, role, handler, runtime, zip, timeout, memory) ==
    [function_name |-> fn, role_name |-> role, handler |-> handler, runtime |-> runtime,
     zip_file |-> zip, timeout |-> timeout, memory_size |-> memory]

LambdaDisk ==
    (OnDisk(LambdaPath("get-coffee")) :>
        [st |-> "json",
         doc |-> Service("get-coffee", "api-role", "lambda_handler.get_coffee",
                         "python3.13", ZipRelOk, <<>>, <<>>)]) @@
    (OnDisk(LambdaPath("create-coffee")) :>
        [st |-> "json",
         doc |-> Service("create-coffee", "ghost-role", "lambda_handler.create_coffee",
                         "Python3.9", ZipAbsOk, <<10>>, <<256>>)]) @@
    (OnDisk(LambdaPath("lost")) :>
        [st |-> "json",
         doc |-> Service("lost", NoneV, "lambda_handler.lost", "nodejs18.x",
                         ZipRelGone, <<>>, <<>>)]) @@
    (OnDisk(LambdaPath("broken")) :>
        [st |-> "malformed", doc |-> Service(NoneV, NoneV, NoneV, NoneV, NoPath, <<>>, <<>>)])

LambdaFiles == {LambdaPath(s) : s \in {"get-coffee", "create-coffee", "lost", "broken", "absent"}}

\* ------------------------------------------------------- route-group documents
\* A resource path is its characters grouped into tokens: "/" or a segment name.

Slash == "/"

\* REST: resources.<name> = {resource_path?, methods?, authorization?, require_api_key?,
\*                           cors_enabled?, function_name}
Resource(path, methods, authorization, require_api_key, cors, fn) ==
    [resource_path |-> path, methods |-> methods, authorization |-> authorization,
     require_api_key |-> require_api_key, cors_enabled |-> cors, function_name |-> fn]

\* REST: authorizers.<name> = {function_name, type?, identity_source?}
\* identity_source is a string (is_list FALSE, one item) or a list of strings; a
\* string is its "."-separated components
RestAuthorizer(fn, type, identity_source) ==
    [function_name |-> fn, type |-> type, identity_source |-> identity_source]

UsagePlan(rate_limit, burst_limit, limit, period) ==
    [rate_limit |-> rate_limit, burst_limit |-> burst_limit, limit |-> limit,
     period |-> period]

RestApi(name, authorizers, resources, usage_plan) ==
    [name |-> name, authorizers |-> authorizers, resources |-> resources,
     usage_plan |-> usage_plan]

\* HTTP: routes.<name> = {resource_path?, methods?, authorization?, function_name?,
\*                        lambda?, url?}
\* lambda is absent (form "none"), a string (form "str", function_name holds it) or
\* an object {function_name?} (form "dict")
Route(path, methods, authorization, fn, lambda, url) ==
    [resource_path |-> path, methods |-> methods, authorization |-> authorization,
     function_name |-> fn, lambda |-> lambda, url |-> url]

LambdaRef(form, fn) == [form |-> form, function_name |-> fn]

NoLambda == LambdaRef("none", NoneV)

\* HTTP: authorizers.<name> = {function_name, identity_source?, ttl_seconds?}
HttpAuthorizer(fn, identity_source, ttl) ==
    [function_name |-> fn, identity_source |-> identity_source, ttl_seconds |-> ttl]

HttpApi(name, authorizers, routes, integration_target, url) ==
    [name |-> name, authorizers |-> authorizers, routes |-> routes,
     integration_target |-> integration_target, url |-> url]

RestDisk ==
    (OnDisk(RestPath("coffee-rest")) :>
        [st |-> "json",
         doc |-> RestApi("coffee-rest",
                   <<[k |-> "token-auth", v |-> RestAuthorizer("get-coffee", NoneV, <<>>)]>>,
                   <<[k |-> "coffee",
                      v |-> Resource(<<<<Slash, "coffee">>>>, <<<<"GET", "OPTIONS">>>>,
                                     <<[k |-> "GET", v |-> "token-auth"]>>, <<"GET">>,
                                     TRUE, "get-coffee")],
                     [k |-> "coffee-item",
                      v |-> Resource(<<<<Slash, "coffee", Slash, "{id}">>>>, <<<<"get">>>>,
                                     <<>>, <<>>, FALSE, "create-coffee")]>>,
                   <<UsagePlan(<<>>, <<>>, <<>>, "week")>>)])

RestFiles == {RestPath(s) : s \in {"coffee-rest", "absent"}}

HttpDisk ==
    (OnDisk(HttpPath("coffee-http")) :>
        [st |-> "json",
         doc |-> HttpApi("coffee-http", <<>>,
                   <<[k |-> "get-coffee",
                      v |-> Route(<<>>, <<<<"GET">>>>, <<>>, NoneV, NoLambda, NoneV)]>>,
                   NoneV, NoneV)]) @@
    (OnDisk(HttpPath("shop-http")) :>
        [st |-> "json",
         doc |-> HttpApi("shop-http",
                   <<[k |-> "jwt", v |-> HttpAuthorizer("create-coffee", NoneV, <<>>)]>>,
                   <<[k |-> "orders",
                      v |-> Route(<<<<Slash, "orders">>>>, <<<<"post">>>>,
                                  <<[k |-> "POST", v |-> "jwt"]>>, "create-coffee",
                                  NoLambda, NoneV)],
                     [k |-> "status",
                      v |-> Route(<<>>, <<>>, <<>>, NoneV, NoLambda,
                                  "https://status.example.com")]>>,
                   NoneV, NoneV)])

HttpFiles == {HttpPath(s) : s \in {"coffee-http", "shop-http", "absent"}}

PoolDisk ==
    (OnDisk(PoolPath("users")) :> [st |-> "json", doc |-> [pool_name |-> "users"]])

PoolFiles == {PoolPath(s) : s \in {"users", "absent"}}

\* ------------------------------------------------------------- diagnostics

Diag(stage, what, idx, name) == [stage |-> stage, what |-> what, idx |-> idx, name |-> name]

\* ------------------------------------------------------------------ loaders

\* JsonLoader.load_json: err is "" and doc the parsed document, or err names the
\* exception raised
load_json(disk, file_path) ==
    IF file_path \notin DOMAIN disk THEN [err |-> "FileNotFoundError", doc |-> NoneV]
    ELSE IF disk[file_path].st = "malformed" THEN [err |-> "JSONDecodeError", doc |-> NoneV]
    ELSE [err |-> "", doc |-> disk[file_path].doc]

\* the loop over inline_policy_files: each file that loads is stored under its base
\* name without extension; a file that fails is printed and left out
RECURSIVE LoadInlinePolicies(_, _, _, _)
LoadInlinePolicies(inline_policy_files, root, i, acc) ==
    IF i > Len(inline_policy_files) THEN acc
    ELSE LET inline_file == inline_policy_files[i]
             got == load_json(PolicyDisk, resolve_file_path(inline_file, root))
         IN  IF got.err = ""
             THEN LoadInlinePolicies(inline_policy_files, root, i + 1,
                      [acc EXCEPT !.inline_policies =
                           DictPut(@, BaseNameNoExt(inline_file), got.doc)])
             ELSE LoadInlinePolicies(inline_policy_files, root, i + 1,
                      [acc EXCEPT !.log =
                           Append(@, Diag("load_role", "inline_policy_failed", i,
                                          BaseNameNoExt(inline_file)))])

RoleRecord(data, trust, inl) ==
    [err |-> "",
     cfg |-> [role_name |-> data.role_name,
              trust_policy |-> IF trust.err = "" THEN trust.doc ELSE NoneV,
              inline_policies |-> inl.inline_policies,
              managed_policies |-> data.managed_policies],
     log |-> inl.log]

\* lines 22-51: trust is the outcome of loading the trust policy
ExpandRole(data, root, trust) ==
    RoleRecord(data, trust,
        LoadInlinePolicies(data.inline_policy_files, root, 1,
            [inline_policies |-> <<>>,
             log |-> IF trust.err # ""
                     THEN <<Diag("load_role", "trust_policy_failed", 0,
                                 BaseNameNoExt(data.trust_policy_path))>>
                     ELSE <<>>]))

\* the loader as it would be without the try around the trust policy: a trust
\* policy that fails to load fails the role document
LoadedRoleTrustFatal(got, st, root) ==
    IF got.err # "" THEN [err |-> got.err, cfg |-> NoneV, log |-> <<>>]
    ELSE IF st = "notdict" THEN [err |-> "AttributeError", cfg |-> NoneV, log |-> <<>>]
    ELSE IF /\ got.doc.trust_policy_path # NoPath
            /\ load_json(PolicyDisk, resolve_file_path(got.doc.trust_policy_path, root)).err # ""
    THEN [err |-> load_json(PolicyDisk,
                            resolve_file_path(got.doc.trust_policy_path, root)).err,
          cfg |-> NoneV, log |-> <<>>]
    ELSE ExpandRole(got.doc, root,
             IF got.doc.trust_policy_path # NoPath
             THEN load_json(PolicyDisk, resolve_file_path(got.doc.trust_policy_path, root))
             ELSE [err |-> "", doc |-> NoneV])

\* lines 18-33: st is the kind of JSON value load_json returned
LoadedRole(got, st, root) ==
    IF got.err # "" THEN [err |-> got.err, cfg |-> NoneV, log |-> <<>>]
    ELSE IF st = "notdict" THEN [err |-> "AttributeError", cfg |-> NoneV, log |-> <<>>]
    ELSE ExpandRole(got.doc, root,
             IF got.doc.trust_policy_path # NoPath
             THEN load_json(PolicyDisk, resolve_file_path(got.doc.trust_policy_path, root))
             ELSE [err |-> "", doc |-> NoneV])

load_iam_role_config(file_path, root) ==
    LoadedRole(load_json(RoleDisk, resolve_file_path(file_path, root)),
               IF resolve_file_path(file_path, root) \in DOMAIN RoleDisk
               THEN RoleDisk[resolve_file_path(file_path, root)].st ELSE "",
               root)

Loaded(got) == [err |-> got.err, cfg |-> got.doc, log |-> <<>>]

PlainLoad(disk, file_path, root) == Loaded(load_json(disk, resolve_file_path(file_path, root)))

load_lambda_function_config(file_path, root) == PlainLoad(LambdaDisk, file_path, root)

load_rest_api_config(file_path, root) == PlainLoad(RestDisk, file_path, root)

load_http_api_config(file_path, root) == PlainLoad(HttpDisk, file_path, root)

load_cognito_user_pool_config(file_path, root) == PlainLoad(PoolDisk, file_path, root)

\* loader_func(file_path, project_root)
CallLoader(loader_func, file_path, root) ==
    CASE loader_func = "load_iam_role_config" -> load_iam_role_config(file_path, root)
      [] loader_func = "load_lambda_function_config" -> load_lambda_function_config(file_path, root)
      [] loader_func = "load_rest_api_config" -> load_rest_api_config(file_path, root)
      [] loader_func = "load_http_api_config" -> load_http_api_config(file_path, root)
      [] OTHER -> load_cognito_user_pool_config(file_path, root)

\* one iteration of the for loop (lines 89-99): got is what loader_func did
LoadOne(acc, i, file_path, got) ==
    IF got.err = ""
    THEN [acc EXCEPT !.attempted = Append(@, file_path),
                     !.loaded_configs = Append(@, got.cfg),
                     !.log = (@ \o got.log) \o <<Diag("load", "loaded", i, file_path.stem)>>]
    ELSE [acc EXCEPT !.attempted = Append(@, file_path),
                     !.failed_files = Append(@, file_path),
                     !.log = Append(@, Diag("load",
                                            IF got.err = "FileNotFoundError"
                                            THEN "file_not_found" ELSE "error_loading",
                                            i, file_path.stem))]

\* the loop as it would be with a break in the except clauses: nothing after the
\* first failing path is tried
RECURSIVE LoadLoopUntilFailure(_, _, _, _, _)
LoadLoopUntilFailure(config_files, loader_func, root, i, acc) ==
    IF i > Len(config_files) \/ acc.failed_files # <<>> THEN acc
    ELSE LoadLoopUntilFailure(config_files, loader_func, root, i + 1,
             LoadOne(acc, i, config_files[i],
                     CallLoader(loader_func, config_files[i], root)))

\* the for loop of load_config_files from position i on: every path is tried, a
\* failure is recorded in failed_files and the loop goes on
RECURSIVE LoadLoop(_, _, _, _, _)
LoadLoop(config_files, loader_func, root, i, acc) ==
    IF i > Len(config_files) THEN acc
    ELSE LoadLoop(config_files, loader_func, root, i + 1,
             LoadOne(acc, i, config_files[i],
                     CallLoader(loader_func, config_files[i], root)))

\* lines 101-117: after the loop, either the aggregate FileNotFoundError naming
\* failed_files (nothing is returned) or the loaded list
FinishLoad(config_files, loader_func, root, done) ==
    IF done.failed_files # <<>>
    THEN [config_files |-> config_files, loader_func |-> loader_func,
          attempted |-> done.attempted, raised |-> "FileNotFoundError",
          message |-> done.failed_files, returned |-> <<>>,
          log |-> done.log \o
              [j \in DOMAIN done.failed_files |->
                  Diag("load", "expected_at", j,
                       resolve_file_path(done.failed_files[j], root).stem)]]
    ELSE [config_files |-> config_files, loader_func |-> loader_func,
          attempted |-> done.attempted, raised |-> "",
          message |-> <<>>, returned |-> done.loaded_configs, log |-> done.log]

load_config_files(config_files, loader_func, root) ==
    FinishLoad(config_files, loader_func, root,
        LoadLoop(config_files, loader_func, root, 1,
            [attempted |-> <<>>, loaded_configs |-> <<>>, failed_files |-> <<>>,
             log |-> <<>>]))

\* ------------------------------------------------------------ str.upper / lower
\* on the strings the documents use; any other string of the model is unchanged

Upper(s) ==
    CASE s = "get" -> "GET"
      [] s = "post" -> "POST"
      [] s = "options" -> "OPTIONS"
      [] s = "token" -> "TOKEN"
      [] s = "request" -> "REQUEST"
      [] s = "week" -> "WEEK"
      [] s = "month" -> "MONTH"
      [] s = "day" -> "DAY"
      [] s = "basic" -> "BASIC"
      [] s = "fortnight" -> "FORTNIGHT"
      [] OTHER -> s

Lower(s) ==
    CASE s = "Python3.9" -> "python3.9"
      [] s = "PYTHON3.13" -> "python3.13"
      [] OTHER -> s

\* ------------------------------------------ handler/coffee-shop/create
\* The request body is what event.get("body") holds: nothing (form "none"), a
\* string that is no JSON (form "invalid"), a JSON object (form "object") with the
\* four attributes, each absent (None) or given, or a JSON value that is no object
\* (form "array").  price is <<>> when absent and <<n>> when given.

Body(form, coffeeId, name, price, available) ==
    [form |-> form, coffeeId |-> coffeeId, name |-> name, price |-> price,
     available |-> available]

NoBody == Body("none", NoneV, NoneV, <<>>, NoneV)

\* json.dumps(body): the JSON text of body
JsonText(body) == [json |-> body]

\* create_response (utils/dynamodb_utils.py); a body is named by its message
create_response(status_code, body) ==
    [statusCode |-> status_code,
     headers |-> <<[k |-> "Content-Type", v |-> "application/json"]>>,
     body |-> JsonText(body)]

\* what a call gives its caller: the value it returns or the exception that leaves it
Returned(value) == [raised |-> "", value |-> <<value>>]

Escaped(exception) == [raised |-> exception, value |-> <<>>]

\* not coffee_id or not name or not price or available is None
MissingAttributes(body_data) ==
    \/ ~Truthy(body_data.coffeeId)
    \/ ~Truthy(body_data.name)
    \/ body_data.price \in {<<>>, <<0>>}
    \/ body_data.available = NoneV

\* table.put_item(Item=..., ConditionExpression="attribute_not_exists(coffeeId)").
\* backend is what the service does with the request: "ok" (the condition decides),
\* "ClientError" (it answers with another error code) or "BotoCoreError" (the
\* client raises an exception that is no ClientError, e.g. no endpoint)
put_item(stored, coffee_id, backend) ==
    IF backend = "BotoCoreError" THEN [err |-> "BotoCoreError", code |-> "", stored |-> stored]
    ELSE IF backend = "ClientError"
    THEN [err |-> "ClientError", code |-> "ProvisionedThroughputExceededException",
          stored |-> stored]
    ELSE IF coffee_id \in stored
    THEN [err |-> "ClientError", code |-> "ConditionalCheckFailedException", stored |-> stored]
    ELSE [err |-> "", code |-> "", stored |-> stored \cup {coffee_id}]

\* create_coffee(event, context): the response and the table afterwards
create_coffee(event, stored, backend) ==
    IF event.body.form = "invalid"
    THEN [response |-> Returned(create_response(400, "Invalid JSON in request body")),
          table |-> stored]
    ELSE IF event.body.form = "array"
    THEN [response |-> Escaped("AttributeError"), table |-> stored]
    ELSE IF MissingAttributes(event.body)
    THEN [response |-> Returned(create_response(409, "Missing required attributes")),
          table |-> stored]
    ELSE IF put_item(stored, event.body.coffeeId, backend).err = ""
    THEN [response |-> Returned(create_response(201, "Item Created Successfully!")),
          table |-> put_item(stored, event.body.coffeeId, backend).stored]
    ELSE IF put_item(stored, event.body.coffeeId, backend).err # "ClientError"
    THEN [response |-> Escaped(put_item(stored, event.body.coffeeId, backend).err),
          table |-> stored]
    ELSE IF put_item(stored, event.body.coffeeId, backend).code =
                "ConditionalCheckFailedException"
    THEN [response |-> Returned(create_response(409, "Item already exists!")),
          table |-> stored]
    ELSE [response |-> Returned(create_response(500, "Internal Server Error!")),
          table |-> stored]

\* the request bodies and the backend's answers
Bodies ==
    {Body("object", coffeeId, name, price, available) :
        coffeeId \in {NoneV, "", "c1", "c2"}, name \in {NoneV, "", "Latte"},
        price \in {<<>>, <<0>>, <<3>>}, available \in {NoneV, "false", "true"}}
    \cup {NoBody, Body("invalid", NoneV, NoneV, <<>>, NoneV),
          Body("array", NoneV, NoneV, <<>>, NoneV)}

Backends == {"ok", "ClientError", "BotoCoreError"}

NoCall == [called |-> FALSE, event |-> [body |-> NoBody], backend |-> "", table |-> {}]

\* no request has reached the handler; the table is empty
HandlerIdle ==
    /\ table = {}
    /\ last_call = NoCall
    /\ response = Escaped("")

\* --------------------------------------------------------------- app.py: loading

OutputsOf(p, ra, r, lf, dr, ra2, ha) ==
    [pc |-> p, raised |-> ra, roles |-> r, lambda_functions |-> lf, default_roles |-> dr,
     rest_apis |-> ra2, http_apis |-> ha]

NoLoad == [config_files |-> <<>>, loader_func |-> "", attempted |-> <<>>, raised |-> "",
           message |-> <<>>, returned |-> <<>>, log |-> <<>>]

Batches == {"roles", "lambdas", "rest", "http", "pools"}

\* the program's state when app.py starts
Fresh(p) ==
    /\ pc = p
    /\ parsed_iam_role_configs = <<>>
    /\ parsed_lambda_function_configs = <<>>
    /\ parsed_rest_api_configs = <<>>
    /\ parsed_http_api_configs = <<>>
    /\ parsed_user_pool_configs = <<>>
    /\ last_load = NoLoad
    /\ roles = <<>>
    /\ role_idx = 1
    /\ lambda_functions = <<>>
    /\ default_roles = <<>>
    /\ fn_idx = 1
    /\ lambda_map = <<>>
    /\ rest_apis = <<>>
    /\ http_apis = <<>>
    /\ log = <<>>
    /\ raised = ""

Init ==
    /\ Fresh("load_roles")
    /\ run = 1
    /\ ctx = <<>>
    /\ HandlerIdle
    /\ prev = OutputsOf("", "", <<>>, <<>>, <<>>, <<>>, <<>>)

resolverVars == <<roles, role_idx, lambda_functions, default_roles, fn_idx, lambda_map,
                  rest_apis, http_apis>>

\* the path lists the context may hold (app.py:134-138); run 2 reads the same context
ContextLists(key) ==
    IF run = 2 THEN (IF key \in DOMAIN ctx THEN {ctx[key]} ELSE {})
    ELSE CASE key = "roles" -> SeqsUpTo(RoleFiles, MaxRoleFiles)
           [] key = "lambdas" -> SeqsUpTo(LambdaFiles, MaxLambdaFiles)
           [] key = "rest" -> SeqsUpTo(RestFiles, 1)
           [] key = "http" -> SeqsUpTo(HttpFiles, 1)
           [] OTHER -> SeqsUpTo(PoolFiles, 1)

\* the try block as it would be if its except clauses printed without re-raising
LoadBatchSwallowing(from, to, key, res) ==
    /\ pc = from
    /\ ctx' = (key :> res.config_files) @@ ctx
    /\ last_load' = res
    /\ log' = log \o res.log
    /\ pc' = to
    /\ raised' = IF res.raised # "" THEN res.raised ELSE raised

\* the outcome res of one load_config_files call of the try block (app.py:142-162):
\* an exception is printed and re-raised, which ends the program before the stack
\* is built
LoadBatch(from, to, key, res) ==
    /\ pc = from
    /\ ctx' = (key :> res.config_files) @@ ctx
    /\ last_load' = res
    /\ log' = log \o res.log
    /\ IF res.raised # ""
       THEN /\ pc' = "aborted"
            /\ raised' = res.raised
       ELSE /\ pc' = to
            /\ raised' = raised

LoadRoles ==
    /\ pc = "load_roles"
    /\ \E config_files \in ContextLists("roles") :
           /\ LoadBatch("load_roles", "load_lambdas", "roles",
                  load_config_files(config_files, "load_iam_role_config", project_root))
           /\ parsed_iam_role_configs' = last_load'.returned
           /\ UNCHANGED <<handlerVars, run, prev, parsed_lambda_function_configs, parsed_rest_api_configs,
                          parsed_http_api_configs, parsed_user_pool_configs, resolverVars>>

LoadLambdas ==
    /\ pc = "load_lambdas"
    /\ \E config_files \in ContextLists("lambdas") :
           /\ LoadBatch("load_lambdas", "load_rest", "lambdas",
                  load_config_files(config_files, "load_lambda_function_config", project_root))
           /\ parsed_lambda_function_configs' = last_load'.returned
           /\ UNCHANGED <<handlerVars, run, prev, parsed_iam_role_configs, parsed_rest_api_configs,
                          parsed_http_api_configs, parsed_user_pool_configs, resolverVars>>

LoadRest ==
    /\ pc = "load_rest"
    /\ \E config_files \in ContextLists("rest") :
           /\ LoadBatch("load_rest", "load_http", "rest",
                  load_config_files(config_files, "load_rest_api_config", project_root))
           /\ parsed_rest_api_configs' = last_load'.returned
           /\ UNCHANGED <<handlerVars, run, prev, parsed_iam_role_configs, parsed_lambda_function_configs,
                          parsed_http_api_configs, parsed_user_pool_configs, resolverVars>>

LoadHttp ==
    /\ pc = "load_http"
    /\ \E config_files \in ContextLists("http") :
           /\ LoadBatch("load_http", "load_pools", "http",
                  load_config_files(config_files, "load_http_api_config", project_root))
           /\ parsed_http_api_configs' = last_load'.returned
           /\ UNCHANGED <<handlerVars, run, prev, parsed_iam_role_configs, parsed_lambda_function_configs,
                          parsed_rest_api_configs, parsed_user_pool_configs, resolverVars>>

\* the last load; on success the stack is instantiated (app.py:165)
LoadPools ==
    /\ pc = "load_pools"
    /\ \E config_files \in ContextLists("pools") :
           /\ LoadBatch("load_pools", "roles", "pools",
                  load_config_files(config_files, "load_cognito_user_pool_config", project_root))
           /\ parsed_user_pool_configs' = last_load'.returned
           /\ UNCHANGED <<handlerVars, run, prev, parsed_iam_role_configs, parsed_lambda_function_configs,
                          parsed_rest_api_configs, parsed_http_api_configs, resolverVars>>

\* ---------------------------------------------------------- IamRoleConstruct

LambdaPrincipal == "lambda.amazonaws.com"

BasicExecutionPolicy == "service-role/AWSLambdaBasicExecutionRole"

\* iam.Role(scope, id, role_name=..., assumed_by=..., inline_policies=...,
\* managed_policies=...).  role_name is the name's parts: <<name>> for a configured
\* role, <<function_name, "-default-role">> for f"{function_name}-default-role"
Role(role_name, assumed_by, inline_policies, managed_policies) ==
    [role_name |-> role_name, assumed_by |-> assumed_by,
     inline_policies |-> inline_policies, managed_policies |-> managed_policies]

\* the try block of the loop for one record: err is "" and role the entity, or err
\* names the exception (role_data["role_name"] on a record without the key)
BuildRole(role_data) ==
    IF role_data.role_name = NoneV
    THEN [err |-> "KeyError", role |-> Role(<<>>, "", <<>>, <<>>)]
    ELSE [err |-> "",
          role |-> Role(<<role_data.role_name>>, LambdaPrincipal,
                        role_data.inline_policies,
                        [i \in DOMAIN role_data.managed_policies |->
                            role_data.managed_policies[i].v])]

\* the loop's iteration as it would be if a role name met twice kept either entity
RoleStepKeepEither ==
    /\ pc = "roles"
    /\ role_idx <= Len(parsed_iam_role_configs)
    /\ LET built == BuildRole(parsed_iam_role_configs[role_idx])
       IN  IF built.err = ""
           THEN /\ roles' \in {(parsed_iam_role_configs[role_idx].role_name :> built.role) @@ roles,
                                roles @@ (parsed_iam_role_configs[role_idx].role_name :> built.role)}
                /\ role_idx' = role_idx + 1
                /\ log' = Append(log, Diag("roles", "created", role_idx,
                                           parsed_iam_role_configs[role_idx].role_name))
                /\ UNCHANGED <<pc, raised>>
           ELSE /\ pc' = "aborted"
                /\ raised' = "TypeError"
                /\ UNCHANGED <<roles, role_idx, log>>
    /\ UNCHANGED <<handlerVars, run, ctx, prev, last_load, parsed_iam_role_configs,
                   parsed_lambda_function_configs, parsed_rest_api_configs,
                   parsed_http_api_configs, parsed_user_pool_configs, lambda_functions,
                   default_roles, fn_idx, lambda_map, rest_apis, http_apis>>

\* the loop's iteration as it would be if a role name met twice kept the first
\* entity stored under it
RoleStepKeepFirst ==
    /\ pc = "roles"
    /\ role_idx <= Len(parsed_iam_role_configs)
    /\ LET built == BuildRole(parsed_iam_role_configs[role_idx])
       IN  IF built.err = ""
           THEN /\ roles' = roles @@ (parsed_iam_role_configs[role_idx].role_name :> built.role)
                /\ role_idx' = role_idx + 1
                /\ log' = Append(log, Diag("roles", "created", role_idx,
                                           parsed_iam_role_configs[role_idx].role_name))
                /\ UNCHANGED <<pc, raised>>
           ELSE /\ pc' = "aborted"
                /\ raised' = "TypeError"
                /\ UNCHANGED <<roles, role_idx, log>>
    /\ UNCHANGED <<handlerVars, run, ctx, prev, last_load, parsed_iam_role_configs,
                   parsed_lambda_function_configs, parsed_rest_api_configs,
                   parsed_http_api_configs, parsed_user_pool_configs, lambda_functions,
                   default_roles, fn_idx, lambda_map, rest_apis, http_apis>>

\* one iteration of the loop (iam_roles_construct.py:20-60).  The except handler
\* formats f"{id + 1}" with id the construct id, a str: the handler itself raises
\* TypeError, which leaves the constructor and the program
RoleStep ==
    /\ pc = "roles"
    /\ role_idx <= Len(parsed_iam_role_configs)
    /\ LET built == BuildRole(parsed_iam_role_configs[role_idx])
       IN  IF built.err = ""
           THEN /\ roles' = (parsed_iam_role_configs[role_idx].role_name :> built.role) @@ roles
                /\ role_idx' = role_idx + 1
                /\ log' = Append(log, Diag("roles", "created", role_idx,
                                           parsed_iam_role_configs[role_idx].role_name))
                /\ UNCHANGED <<pc, raised>>
           ELSE /\ pc' = "aborted"
                /\ raised' = "TypeError"
                /\ UNCHANGED <<roles, role_idx, log>>
    /\ UNCHANGED <<handlerVars, run, ctx, prev, last_load, parsed_iam_role_configs,
                   parsed_lambda_function_configs, parsed_rest_api_configs,
                   parsed_http_api_configs, parsed_user_pool_configs, lambda_functions,
                   default_roles, fn_idx, lambda_map, rest_apis, http_apis>>

\* the loop is over: the stack goes on to LambdaFunctionConstruct (aws_cdk_infra_setup_stack.py:38)
RolesEnd ==
    /\ pc = "roles"
    /\ role_idx > Len(parsed_iam_role_configs)
    /\ pc' = "functions"
    /\ UNCHANGED <<handlerVars, run, ctx, prev, last_load, parsed_iam_role_configs,
                   parsed_lambda_function_configs, parsed_rest_api_configs,
                   parsed_http_api_configs, parsed_user_pool_configs, roles, role_idx,
                   lambda_functions, default_roles, fn_idx, lambda_map, rest_apis,
                   http_apis, log, raised>>

\* ---------------------------------------------------- LambdaFunctionConstruct

runtime_map ==
    ("python3.13" :> "PYTHON_3_13") @@ ("python3.10" :> "PYTHON_3_10") @@
    ("python3.9" :> "PYTHON_3_9") @@ ("python3.8" :> "PYTHON_3_8") @@
    ("python3.7" :> "PYTHON_3_7")

DefaultTimeout == 30

DefaultMemorySize == 128

\* the check as it would be if it looked at function_name and zip_file only
MissingNameOrZip(service) ==
    \/ ~Truthy(service.function_name)
    \/ service.zip_file = NoPath

\* not all([function_name, handler, runtime_str, zip_path])
MissingRequired(service) ==
    \/ ~Truthy(service.function_name)
    \/ ~Truthy(service.handler)
    \/ ~Truthy(service.runtime)
    \/ service.zip_file = NoPath

\* the lookup as it would be if it never found a role
ResolveRoleNever(role_map, role_name) == <<>>

\* lines 51-88: the role stored under role_name, if any; None is <<>>
ResolveRole(role_map, role_name) ==
    IF Truthy(role_name) /\ role_name \in DOMAIN role_map
    THEN <<role_map[role_name]>>
    ELSE <<>>

\* lines 77-88
DefaultRole(function_name) ==
    Role(<<function_name, "-default-role">>, LambdaPrincipal, <<>>, <<BasicExecutionPolicy>>)

\* the lookup as it would be without .lower(): the identifier as it is written
ResolveRuntimeAsWritten(runtime_str) ==
    IF runtime_str \in DOMAIN runtime_map
    THEN runtime_map[runtime_str]
    ELSE "PYTHON_3_13"

\* lines 92-96
ResolveRuntime(runtime_str) ==
    IF Lower(runtime_str) \in DOMAIN runtime_map
    THEN runtime_map[Lower(runtime_str)]
    ELSE "PYTHON_3_13"

\* the code path as it would be if it were used as given
ResolveCodePathAsGiven(zip_path, root) == zip_path

\* lines 98-101
ResolveCodePath(zip_path, root) ==
    IF root # <<>> /\ ~zip_path.abs
    THEN [zip_path EXCEPT !.abs = TRUE, !.dirs = root \o zip_path.dirs]
    ELSE zip_path

\* _lambda.Function(...); src is the position of its record in the batch
Function(service, runtime, code_path, role, src) ==
    [function_name |-> service.function_name, runtime |-> runtime,
     handler |-> service.handler, code |-> code_path, role |-> role,
     timeout |-> OptGet(service.timeout, DefaultTimeout),
     memory_size |-> OptGet(service.memory_size, DefaultMemorySize), src |-> src]

\* one iteration of the loop (lambda_functions_construct.py:35-131)
FunctionStep ==
    /\ pc = "functions"
    /\ fn_idx <= Len(parsed_lambda_function_configs)
    /\ LET service == parsed_lambda_function_configs[fn_idx]
           found == ResolveRole(roles, service.role_name)
           role == IF found = <<>> THEN DefaultRole(service.function_name) ELSE found[1]
           code_path == ResolveCodePath(service.zip_file, project_root)
           roleLog == IF found = <<>>
                      THEN <<Diag("functions", "default_role", fn_idx, service.function_name)>>
                      ELSE <<>>
           runtimeLog == IF Lower(service.runtime) \in DOMAIN runtime_map THEN <<>>
                         ELSE <<Diag("functions", "unsupported_runtime", fn_idx,
                                     service.function_name)>>
       IN  IF MissingRequired(service)
           THEN /\ log' = Append(log, Diag("functions", "skip_missing_fields", fn_idx,
                                           service.function_name))
                /\ UNCHANGED <<lambda_functions, default_roles>>
           ELSE /\ default_roles' = IF found = <<>> THEN Append(default_roles, role)
                                    ELSE default_roles
                /\ IF code_path \notin CodeDisk
                   THEN /\ log' = (log \o roleLog \o runtimeLog) \o
                                  <<Diag("functions", "skip_no_code", fn_idx,
                                         service.function_name)>>
                        /\ UNCHANGED lambda_functions
                   ELSE /\ lambda_functions' =
                               (service.function_name :>
                                   Function(service, ResolveRuntime(service.runtime),
                                            code_path, role, fn_idx)) @@ lambda_functions
                        /\ log' = (log \o roleLog \o runtimeLog) \o
                                  <<Diag("functions", "created", fn_idx,
                                         service.function_name)>>
    /\ fn_idx' = fn_idx + 1
    /\ UNCHANGED <<handlerVars, pc, run, ctx, prev, last_load, parsed_iam_role_configs,
                   parsed_lambda_function_configs, parsed_rest_api_configs,
                   parsed_http_api_configs, parsed_user_pool_configs, roles, role_idx,
                   lambda_map, rest_apis, http_apis, raised>>

\* the loop is over: the stack copies the mapping for the route resolvers (aws_cdk_infra_setup_stack.py:47)
FunctionsEnd ==
    /\ pc = "functions"
    /\ fn_idx > Len(parsed_lambda_function_configs)
    /\ lambda_map' = lambda_functions
    /\ pc' = "rest"
    /\ UNCHANGED <<handlerVars, run, ctx, prev, last_load, parsed_iam_role_configs,
                   parsed_lambda_function_configs, parsed_rest_api_configs,
                   parsed_http_api_configs, parsed_user_pool_configs, roles, role_idx,
                   lambda_functions, default_roles, fn_idx, rest_apis, http_apis, log,
                   raised>>

\* ---------------------------------------------------- RestApiGatewayConstruct

DefaultIdentitySource == <<"method", "request", "header", "Authorization">>

\* word in component, for the components the documents use
SubstringOf(word, component) ==
    \/ component = word
    \/ word = "header" /\ component \in {"headers", "multivalueheaders"}
    \/ word = "querystring" /\ component \in {"querystrings", "multivaluequerystring"}

\* `word in source` for a word without "."
Contains(source, word) == \E i \in DOMAIN source : SubstringOf(word, source[i])

\* source.split(".")[-1]
LastComponent(source) == source[Len(source)]

\* the classification as it would be with the two tests exchanged
ClassifyQueryFirst(source) ==
    IF Contains(source, "querystring")
    THEN [in |-> "query_string", name |-> LastComponent(source)]
    ELSE IF Contains(source, "header")
    THEN [in |-> "header", name |-> LastComponent(source)]
    ELSE [in |-> "header", name |-> "Authorization"]

\* lines 76-83: one IdentitySource per input string
ClassifySource(source) ==
    IF Contains(source, "header")
    THEN [in |-> "header", name |-> LastComponent(source)]
    ELSE IF Contains(source, "querystring")
    THEN [in |-> "query_string", name |-> LastComponent(source)]
    ELSE [in |-> "header", name |-> "Authorization"]

\* the construction as it would be if a type that is neither TOKEN nor REQUEST gave
\* a TOKEN authorizer
BuildRestAuthorizerAnyKind(fn_map, auth_name, auth_cfg) ==
    IF ~(Truthy(auth_cfg.function_name) /\ auth_cfg.function_name \in DOMAIN fn_map)
    THEN <<>>
    ELSE <<[id |-> <<auth_name, "TokenAuthorizer">>, kind |-> "TOKEN",
            handler |-> auth_cfg.function_name,
            identity_sources |-> <<[in |-> "raw", name |-> NoneV,
                                    source |-> DefaultIdentitySource]>>]>>

\* lines 55-94 for one authorizer: <<>> when it is skipped, else <<authorizer>>
BuildRestAuthorizer(fn_map, auth_name, auth_cfg) ==
    LET auth_type == Upper(IF auth_cfg.type = NoneV THEN "TOKEN" ELSE auth_cfg.type)
        identity_source == OptGet(auth_cfg.identity_source,
                                  [is_list |-> FALSE, items |-> <<DefaultIdentitySource>>])
    IN  IF ~(Truthy(auth_cfg.function_name) /\ auth_cfg.function_name \in DOMAIN fn_map)
        THEN <<>>
        ELSE IF auth_type = "TOKEN"
        THEN <<[id |-> <<auth_name, "TokenAuthorizer">>, kind |-> "TOKEN",
                handler |-> auth_cfg.function_name,
                identity_sources |-> <<[in |-> "raw", name |-> NoneV,
                                        source |-> identity_source.items[1]]>>]>>
        ELSE IF auth_type = "REQUEST"
        THEN <<[id |-> <<auth_name, "RequestAuthorizer">>, kind |-> "REQUEST",
                handler |-> auth_cfg.function_name,
                identity_sources |->
                    [i \in DOMAIN identity_source.items |->
                        LET c == ClassifySource(identity_source.items[i])
                        IN  [in |-> c.in, name |-> c.name,
                             source |-> identity_source.items[i]]]]>>
        ELSE <<>>

\* the authorizer loop: the group's authorizer_map
RECURSIVE RestAuthorizers(_, _, _, _)
RestAuthorizers(fn_map, authorizers_cfg, i, acc) ==
    IF i > Len(authorizers_cfg) THEN acc
    ELSE LET built == BuildRestAuthorizer(fn_map, authorizers_cfg[i].k, authorizers_cfg[i].v)
         IN  RestAuthorizers(fn_map, authorizers_cfg, i + 1,
                 IF built = <<>>
                 THEN [acc EXCEPT !.log = Append(@, Diag("rest", "skip_authorizer", i,
                                                         authorizers_cfg[i].k))]
                 ELSE [acc EXCEPT !.authorizer_map = (authorizers_cfg[i].k :> built[1]) @@ @])

\* str.strip("/") on a path's tokens
RECURSIVE StripLeft(_)
StripLeft(tokens) ==
    IF tokens # <<>> /\ Head(tokens) = Slash THEN StripLeft(Tail(tokens)) ELSE tokens

RECURSIVE StripRight(_)
StripRight(tokens) ==
    IF tokens # <<>> /\ tokens[Len(tokens)] = Slash
    THEN StripRight(SubSeq(tokens, 1, Len(tokens) - 1))
    ELSE tokens

Strip(tokens) == StripRight(StripLeft(tokens))

\* str.split("/"): the parts between the separators; two adjacent separators, or
\* no characters at all, give the empty part ""
RECURSIVE SplitFrom(_, _, _)
SplitFrom(tokens, parts, current) ==
    IF tokens = <<>> THEN Append(parts, current)
    ELSE IF Head(tokens) = Slash THEN SplitFrom(Tail(tokens), Append(parts, current), "")
    ELSE SplitFrom(Tail(tokens), parts, Head(tokens))

Split(tokens) == SplitFrom(tokens, <<>>, "")

\* the walk as it would be without the created_resources lookup: every part of
\* every path adds a node
RECURSIVE WalkPathNoReuse(_, _, _, _, _)
WalkPathNoReuse(path_parts, i, parent_resource, current_path, tree) ==
    IF i > Len(path_parts) THEN [tree EXCEPT !.resource = parent_resource]
    ELSE IF path_parts[i] = ""
    THEN WalkPathNoReuse(path_parts, i + 1, parent_resource, current_path, tree)
    ELSE WalkPathNoReuse(path_parts, i + 1, Len(tree.nodes) + 1,
             Append(current_path, path_parts[i]),
             [tree EXCEPT
                 !.nodes = Append(@, [parent |-> parent_resource,
                                      path_part |-> path_parts[i]]),
                 !.created_resources =
                     (Append(current_path, path_parts[i]) :> (Len(tree.nodes) + 1)) @@ @])

\* lines 110-121: walk the parts from the root (node 0).  tree.nodes[n] is node n's
\* parent and path part; tree.created_resources maps a joined prefix to its node
RECURSIVE WalkPath(_, _, _, _, _)
WalkPath(path_parts, i, parent_resource, current_path, tree) ==
    IF i > Len(path_parts) THEN [tree EXCEPT !.resource = parent_resource]
    ELSE LET part == path_parts[i]
             next_path == Append(current_path, part)
         IN  IF part = "" THEN WalkPath(path_parts, i + 1, parent_resource, current_path, tree)
             ELSE IF next_path \in DOMAIN tree.created_resources
             THEN WalkPath(path_parts, i + 1, tree.created_resources[next_path],
                           next_path, tree)
             ELSE WalkPath(path_parts, i + 1, Len(tree.nodes) + 1, next_path,
                      [tree EXCEPT
                          !.nodes = Append(@, [parent |-> parent_resource,
                                               path_part |-> part]),
                          !.created_resources = (next_path :> (Len(tree.nodes) + 1)) @@ @])

\* the lookup as it would be if a name that is no key fell back to an authorizer
\* of the group
MethodAuthorizerAny(authorizations, authorizer_map, method_upper) ==
    IF ~Truthy(DictGet(authorizations, method_upper, NoneV)) \/ authorizer_map = <<>>
    THEN <<>>
    ELSE IF DictGet(authorizations, method_upper, NoneV) \in DOMAIN authorizer_map
    THEN <<authorizer_map[DictGet(authorizations, method_upper, NoneV)]>>
    ELSE <<authorizer_map[CHOOSE n \in DOMAIN authorizer_map : TRUE]>>

\* lines 153-155: the authorizer of one method (None is <<>>) 
MethodAuthorizer(authorizations, authorizer_map, method_upper) ==
    LET auth_name == DictGet(authorizations, method_upper, NoneV)
    IN  IF Truthy(auth_name) /\ auth_name \in DOMAIN authorizer_map
        THEN <<authorizer_map[auth_name]>>
        ELSE <<>>

AuthorizationType(authorizer) == IF authorizer # <<>> THEN "CUSTOM" ELSE "NONE"

\* the loop as it would be without the test for OPTIONS: every declared method is
\* bound to the function
RECURSIVE RestMethodsWithOptions(_, _, _, _, _, _, _)
RestMethodsWithOptions(src, cfg, resource, authorizer_map, methods, i, acc) ==
    IF i > Len(methods) THEN acc
    ELSE LET method_upper == Upper(methods[i])
             authorizer == MethodAuthorizer(cfg.authorization, authorizer_map, method_upper)
         IN  RestMethodsWithOptions(src, cfg, resource, authorizer_map, methods, i + 1,
                 Append(acc, [src |-> src, resource |-> resource, method |-> method_upper,
                              integration |-> cfg.function_name,
                              api_key_required |->
                                  method_upper \in Range(cfg.require_api_key),
                              authorization_type |-> AuthorizationType(authorizer),
                              authorizer |-> authorizer]))

\* the loop as it would be if a non-empty API-key list asked for a key on every
\* method of the resource
RECURSIVE RestMethodsKeyForAll(_, _, _, _, _, _, _)
RestMethodsKeyForAll(src, cfg, resource, authorizer_map, methods, i, acc) ==
    IF i > Len(methods) THEN acc
    ELSE LET method_upper == Upper(methods[i])
             authorizer == MethodAuthorizer(cfg.authorization, authorizer_map, method_upper)
         IN  IF method_upper = "OPTIONS"
             THEN RestMethodsKeyForAll(src, cfg, resource, authorizer_map, methods, i + 1, acc)
             ELSE RestMethodsKeyForAll(src, cfg, resource, authorizer_map, methods, i + 1,
                      Append(acc, [src |-> src, resource |-> resource, method |-> method_upper,
                                   integration |-> cfg.function_name,
                                   api_key_required |-> cfg.require_api_key # <<>>,
                                   authorization_type |-> AuthorizationType(authorizer),
                                   authorizer |-> authorizer]))

\* lines 149-162: resource.add_method for each declared method but OPTIONS; src is
\* the position of the resource in resources_cfg
RECURSIVE RestMethods(_, _, _, _, _, _, _)
RestMethods(src, cfg, resource, authorizer_map, methods, i, acc) ==
    IF i > Len(methods) THEN acc
    ELSE LET method_upper == Upper(methods[i])
             authorizer == MethodAuthorizer(cfg.authorization, authorizer_map, method_upper)
         IN  IF method_upper = "OPTIONS"
             THEN RestMethods(src, cfg, resource, authorizer_map, methods, i + 1, acc)
             ELSE RestMethods(src, cfg, resource, authorizer_map, methods, i + 1,
                      Append(acc, [src |-> src, resource |-> resource, method |-> method_upper,
                                   integration |-> cfg.function_name,
                                   api_key_required |->
                                       method_upper \in Range(cfg.require_api_key),
                                   authorization_type |-> AuthorizationType(authorizer),
                                   authorizer |-> authorizer]))

\* _create_resources_and_methods: the loop over resources_cfg from position i on;
\* api.cors holds one entry per add_cors_preflight call (lines 124-136, before the
\* function lookup of lines 139-143): the resource it was called on and the position
\* of the resource configuration that asked for it
RECURSIVE RestResources(_, _, _, _, _)
RestResources(resources_cfg, fn_map, authorizer_map, i, api) ==
    IF i > Len(resources_cfg) THEN api
    ELSE LET resource_name == resources_cfg[i].k
             cfg == resources_cfg[i].v
             path_parts == Split(Strip(OptGet(cfg.resource_path, <<Slash, resource_name>>)))
             tree == WalkPath(path_parts, 1, 0, <<>>,
                         [nodes |-> api.nodes, created_resources |-> api.created_resources,
                          resource |-> 0])
             walked == [api EXCEPT !.nodes = tree.nodes,
                                   !.created_resources = tree.created_resources,
                                   !.cors = IF cfg.cors_enabled
                                            THEN Append(@, [src |-> i, resource |-> tree.resource])
                                            ELSE @]
         IN  IF ~(Truthy(cfg.function_name) /\ cfg.function_name \in DOMAIN fn_map)
             THEN RestResources(resources_cfg, fn_map, authorizer_map, i + 1,
                      [walked EXCEPT !.log = Append(@, Diag("rest", "skip_resource", i,
                                                            resource_name))])
             ELSE RestResources(resources_cfg, fn_map, authorizer_map, i + 1,
                      [walked EXCEPT !.methods =
                           RestMethods(i, cfg, tree.resource, authorizer_map,
                                       OptGet(cfg.methods, <<>>), 1, @)])

Periods == {"DAY", "WEEK", "MONTH"}

DefaultRateLimit == 100

DefaultBurstLimit == 20

DefaultQuotaLimit == 1000

\* _create_usage_plan: plan is <<>> when there is no usage_plan configuration;
\* apigw.Period[name] raises KeyError for a name that is no member
create_usage_plan(usage_cfg, api_name) ==
    IF usage_cfg = <<>> THEN [err |-> "", plan |-> <<>>]
    ELSE LET period == Upper(IF usage_cfg[1].period = NoneV THEN "MONTH"
                             ELSE usage_cfg[1].period)
         IN  IF period \notin Periods THEN [err |-> "KeyError", plan |-> <<>>]
             ELSE [err |-> "",
                   plan |-> <<[name |-> <<api_name, "-usage-plan">>,
                               rate_limit |-> OptGet(usage_cfg[1].rate_limit, DefaultRateLimit),
                               burst_limit |-> OptGet(usage_cfg[1].burst_limit, DefaultBurstLimit),
                               limit |-> OptGet(usage_cfg[1].limit, DefaultQuotaLimit),
                               period |-> period]>>]

\* RestApiGatewayConstruct.__init__ for the one group the stack hands it
BuildRestApi(fn_map, api_cfg) ==
    LET api_name == IF api_cfg.name = NoneV THEN "rest-api-0" ELSE api_cfg.name
        auth == RestAuthorizers(fn_map, api_cfg.authorizers, 1,
                                [authorizer_map |-> <<>>, log |-> <<>>])
        api == RestResources(api_cfg.resources, fn_map, auth.authorizer_map, 1,
                   [name |-> api_name, authorizer_map |-> auth.authorizer_map,
                    nodes |-> <<>>, created_resources |-> <<>>, methods |-> <<>>,
                    cors |-> <<>>, usage_plan |-> <<>>, log |-> auth.log])
        usage == create_usage_plan(api_cfg.usage_plan, api_name)
    IN  [err |-> usage.err, api |-> [api EXCEPT !.usage_plan = usage.plan]]

\* one iteration of the stack's loop over rest_api_configs (aws_cdk_infra_setup_stack.py:52-60); an
\* exception inside the construct is caught nowhere
RestStep ==
    /\ pc = "rest"
    /\ Len(rest_apis) < Len(parsed_rest_api_configs)
    /\ LET built == BuildRestApi(lambda_map, parsed_rest_api_configs[Len(rest_apis) + 1])
       IN  IF built.err = ""
           THEN /\ rest_apis' = Append(rest_apis, built.api)
                /\ log' = log \o built.api.log
                /\ UNCHANGED <<pc, raised>>
           ELSE /\ pc' = "aborted"
                /\ raised' = built.err
                /\ log' = log \o built.api.log
                /\ UNCHANGED rest_apis
    /\ UNCHANGED <<handlerVars, run, ctx, prev, last_load, parsed_iam_role_configs,
                   parsed_lambda_function_configs, parsed_rest_api_configs,
                   parsed_http_api_configs, parsed_user_pool_configs, roles, role_idx,
                   lambda_functions, default_roles, fn_idx, lambda_map, http_apis>>

RestEnd ==
    /\ pc = "rest"
    /\ Len(rest_apis) = Len(parsed_rest_api_configs)
    /\ pc' = "http"
    /\ UNCHANGED <<handlerVars, run, ctx, prev, last_load, parsed_iam_role_configs,
                   parsed_lambda_function_configs, parsed_rest_api_configs,
                   parsed_http_api_configs, parsed_user_pool_configs, roles, role_idx,
                   lambda_functions, default_roles, fn_idx, lambda_map, rest_apis,
                   http_apis, log, raised>>

\* ---------------------------------------------------- HttpApiGatewayConstruct

DefaultTtlSeconds == 300

\* _create_authorizers: an authorizer whose function is not in lambda_map (or whose
\* function_name is missing: KeyError, caught) is printed and left out; the mapping
\* holds the created authorizer's ref
RECURSIVE _create_authorizers(_, _, _, _)
_create_authorizers(fn_map, authorizers_config, i, acc) ==
    IF i > Len(authorizers_config) THEN acc
    ELSE LET auth_name == authorizers_config[i].k
             auth_config == authorizers_config[i].v
         IN  IF auth_config.function_name = NoneV \/ auth_config.function_name \notin DOMAIN fn_map
             THEN _create_authorizers(fn_map, authorizers_config, i + 1,
                      [acc EXCEPT !.log = Append(@, Diag("http", "skip_authorizer", i, auth_name))])
             ELSE _create_authorizers(fn_map, authorizers_config, i + 1,
                      [acc EXCEPT !.authorizers =
                           (auth_name :>
                               [ref |-> <<auth_name, "-authorizer">>,
                                authorizer_type |-> "REQUEST",
                                handler |-> fn_map[auth_config.function_name].function_name,
                                identity_source |->
                                    <<IF auth_config.identity_source = NoneV
                                      THEN "$request.header.Authorization"
                                      ELSE auth_config.identity_source>>,
                                ttl |-> OptGet(auth_config.ttl_seconds, DefaultTtlSeconds)])
                           @@ @])

\* the integration target of one route: <<>> is None
LambdaTarget(fn_map, name) ==
    <<[type |-> "lambda", fn |-> fn_map[name].function_name, url |-> NoneV]>>

HttpTarget(url) == <<[type |-> "http", fn |-> NoneV, url |-> url]>>

\* the resolution without option 1 (the function named like the route)
DetermineWithoutNameMatch(fn_map, api_config, route_name, route_config) ==
    IF Truthy(route_config.function_name) /\ route_config.function_name \in DOMAIN fn_map
    THEN LambdaTarget(fn_map, route_config.function_name)
    ELSE IF /\ route_config.lambda.form \in {"str", "dict"}
            /\ Truthy(route_config.lambda.function_name)
            /\ route_config.lambda.function_name \in DOMAIN fn_map
    THEN LambdaTarget(fn_map, route_config.lambda.function_name)
    ELSE IF api_config.integration_target = "HTTP URI" /\ Truthy(api_config.url)
    THEN HttpTarget(api_config.url)
    ELSE IF Truthy(route_config.url)
    THEN HttpTarget(route_config.url)
    ELSE <<>>

\* the resolution with options 1 and 2 exchanged (the explicit function_name first)
DetermineExplicitFirst(fn_map, api_config, route_name, route_config) ==
    IF Truthy(route_config.function_name) /\ route_config.function_name \in DOMAIN fn_map
    THEN LambdaTarget(fn_map, route_config.function_name)
    ELSE IF route_name \in DOMAIN fn_map
    THEN LambdaTarget(fn_map, route_name)
    ELSE DetermineWithoutNameMatch(fn_map, api_config, route_name, route_config)

\* the resolution as it would be if the group's url were used whenever it is given,
\* whatever integration_target says
DetermineAnyGlobalUrl(fn_map, api_config, route_name, route_config) ==
    IF route_name \in DOMAIN fn_map
    THEN LambdaTarget(fn_map, route_name)
    ELSE IF Truthy(route_config.function_name) /\ route_config.function_name \in DOMAIN fn_map
    THEN LambdaTarget(fn_map, route_config.function_name)
    ELSE IF /\ route_config.lambda.form \in {"str", "dict"}
            /\ Truthy(route_config.lambda.function_name)
            /\ route_config.lambda.function_name \in DOMAIN fn_map
    THEN LambdaTarget(fn_map, route_config.lambda.function_name)
    ELSE IF Truthy(api_config.url)
    THEN HttpTarget(api_config.url)
    ELSE IF Truthy(route_config.url)
    THEN HttpTarget(route_config.url)
    ELSE <<>>

_determine_integration_target(fn_map, api_config, route_name, route_config) ==
    IF route_name \in DOMAIN fn_map
    THEN LambdaTarget(fn_map, route_name)
    ELSE IF Truthy(route_config.function_name) /\ route_config.function_name \in DOMAIN fn_map
    THEN LambdaTarget(fn_map, route_config.function_name)
    ELSE IF /\ route_config.lambda.form = "str"
            /\ Truthy(route_config.lambda.function_name)
            /\ route_config.lambda.function_name \in DOMAIN fn_map
    THEN LambdaTarget(fn_map, route_config.lambda.function_name)
    ELSE IF /\ route_config.lambda.form = "dict"
            /\ Truthy(route_config.lambda.function_name)
            /\ route_config.lambda.function_name \in DOMAIN fn_map
    THEN LambdaTarget(fn_map, route_config.lambda.function_name)
    ELSE IF api_config.integration_target = "HTTP URI" /\ Truthy(api_config.url)
    THEN HttpTarget(api_config.url)
    ELSE IF Truthy(route_config.url)
    THEN HttpTarget(route_config.url)
    ELSE <<>>

_create_integration(api_config, route_name, integration_target) ==
    IF integration_target.type = "lambda"
    THEN [id |-> <<route_name, "-lambda-integration">>, integration_type |-> "AWS_PROXY",
          target |-> integration_target, integration_method |-> "POST"]
    ELSE [id |-> <<route_name, "-http-integration">>, integration_type |-> "HTTP_PROXY",
          target |-> integration_target, integration_method |-> "GET"]

\* the loop as it would be if the route key were built from the route's name, not
\* from its resource_path
RECURSIVE HttpMethodsUnderRouteName(_, _, _, _, _, _, _)
HttpMethodsUnderRouteName(route_name, resource_path, authorizations, authorizer_map, integration, methods, acc) ==
    IF methods = <<>> THEN acc
    ELSE LET method_upper == Upper(Head(methods))
             authorizer_id == MethodAuthorizer(authorizations, authorizer_map, method_upper)
         IN  HttpMethodsUnderRouteName(route_name, resource_path, authorizations,
                 authorizer_map, integration, Tail(methods),
                 Append(acc, [route |-> route_name,
                              route_key |-> [method |-> method_upper,
                                             path |-> <<Slash, route_name>>],
                              target |-> integration.id,
                              authorizer_id |-> authorizer_id,
                              authorization_type |-> AuthorizationType(authorizer_id)]))

\* lines 121-141: one CfnRoute per declared method
RECURSIVE HttpMethods(_, _, _, _, _, _, _)
HttpMethods(route_name, resource_path, authorizations, authorizer_map, integration, methods, acc) ==
    IF methods = <<>> THEN acc
    ELSE LET method_upper == Upper(Head(methods))
             authorizer_id == MethodAuthorizer(authorizations, authorizer_map, method_upper)
         IN  HttpMethods(route_name, resource_path, authorizations, authorizer_map,
                 integration, Tail(methods),
                 Append(acc, [route |-> route_name,
                              route_key |-> [method |-> method_upper, path |-> resource_path],
                              target |-> integration.id,
                              authorizer_id |-> authorizer_id,
                              authorization_type |-> AuthorizationType(authorizer_id)]))

\* the loop as it would be if a route without target ended it (break in place of
\* continue)
RECURSIVE SetupRoutesStoppingAtUnmatched(_, _, _, _)
SetupRoutesStoppingAtUnmatched(fn_map, api_config, i, api) ==
    IF i > Len(api_config.routes) THEN api
    ELSE LET route_name == api_config.routes[i].k
             route_config == api_config.routes[i].v
             resource_path == OptGet(route_config.resource_path, <<Slash, route_name>>)
             methods == OptGet(route_config.methods, <<"GET">>)
             integration_target ==
                 _determine_integration_target(fn_map, api_config, route_name, route_config)
             integration == _create_integration(api_config, route_name, integration_target[1])
         IN  IF integration_target = <<>>
             THEN [api EXCEPT !.log = Append(@, Diag("http", "skip_route", i, route_name))]
             ELSE SetupRoutesStoppingAtUnmatched(fn_map, api_config, i + 1,
                      [api EXCEPT
                          !.integrations = Append(@, integration),
                          !.routes = HttpMethods(route_name, resource_path,
                                         route_config.authorization, api.authorizers,
                                         integration, methods, @)])

\* _setup_routes: the loop over routes_config from position i on
RECURSIVE _setup_routes(_, _, _, _)
_setup_routes(fn_map, api_config, i, api) ==
    IF i > Len(api_config.routes) THEN api
    ELSE LET route_name == api_config.routes[i].k
             route_config == api_config.routes[i].v
             resource_path == OptGet(route_config.resource_path, <<Slash, route_name>>)
             methods == OptGet(route_config.methods, <<"GET">>)
             integration_target ==
                 _determine_integration_target(fn_map, api_config, route_name, route_config)
             integration == _create_integration(api_config, route_name, integration_target[1])
         IN  IF integration_target = <<>>
             THEN _setup_routes(fn_map, api_config, i + 1,
                      [api EXCEPT !.log = Append(@, Diag("http", "skip_route", i, route_name))])
             ELSE _setup_routes(fn_map, api_config, i + 1,
                      [api EXCEPT
                          !.integrations = Append(@, integration),
                          !.routes = HttpMethods(route_name, resource_path,
                                         route_config.authorization, api.authorizers,
                                         integration, methods, @)])

\* HttpApiGatewayConstruct.__init__: api_config["name"] raises KeyError when the
\* document has no name
BuildHttpApi(fn_map, api_config) ==
    IF api_config.name = NoneV
    THEN [err |-> "KeyError",
          api |-> [name |-> NoneV, authorizers |-> <<>>, integrations |-> <<>>,
                   routes |-> <<>>, log |-> <<>>]]
    ELSE LET auth == _create_authorizers(fn_map, api_config.authorizers, 1,
                         [authorizers |-> <<>>, log |-> <<>>])
         IN  [err |-> "",
              api |-> _setup_routes(fn_map, api_config, 1,
                          [name |-> api_config.name, authorizers |-> auth.authorizers,
                           integrations |-> <<>>, routes |-> <<>>, log |-> auth.log])]

\* the loop iteration as it would be if the construct stored each function it
\* resolved for a route under the route's name in the mapping it was handed
HttpStepCachingTargets ==
    /\ pc = "http"
    /\ Len(http_apis) < Len(parsed_http_api_configs)
    /\ LET built == BuildHttpApi(lambda_map, parsed_http_api_configs[Len(http_apis) + 1])
           resolved == {g \in DOMAIN built.api.integrations :
                           built.api.integrations[g].target.type = "lambda"}
           cached == {built.api.integrations[g].id[1] : g \in resolved}
           fnOf(n) == (CHOOSE g \in resolved : built.api.integrations[g].id[1] = n)
       IN  /\ lambda_map' =
                  [n \in DOMAIN lambda_map \cup cached |->
                      IF n \in DOMAIN lambda_map THEN lambda_map[n]
                      ELSE lambda_map[built.api.integrations[fnOf(n)].target.fn]]
           /\ IF built.err = ""
              THEN /\ http_apis' = Append(http_apis, built.api)
                   /\ log' = log \o built.api.log
                   /\ UNCHANGED <<pc, raised>>
              ELSE /\ pc' = "aborted"
                   /\ raised' = built.err
                   /\ UNCHANGED <<http_apis, log>>
    /\ UNCHANGED <<handlerVars, run, ctx, prev, last_load, parsed_iam_role_configs,
                   parsed_lambda_function_configs, parsed_rest_api_configs,
                   parsed_http_api_configs, parsed_user_pool_configs, roles, role_idx,
                   lambda_functions, default_roles, fn_idx, rest_apis>>

\* one iteration of the stack's loop over http_api_configs (aws_cdk_infra_setup_stack.py:65-74)
HttpStep ==
    /\ pc = "http"
    /\ Len(http_apis) < Len(parsed_http_api_configs)
    /\ LET built == BuildHttpApi(lambda_map, parsed_http_api_configs[Len(http_apis) + 1])
       IN  IF built.err = ""
           THEN /\ http_apis' = Append(http_apis, built.api)
                /\ log' = log \o built.api.log
                /\ UNCHANGED <<pc, raised>>
           ELSE /\ pc' = "aborted"
                /\ raised' = built.err
                /\ UNCHANGED <<http_apis, log>>
    /\ UNCHANGED <<handlerVars, run, ctx, prev, last_load, parsed_iam_role_configs,
                   parsed_lambda_function_configs, parsed_rest_api_configs,
                   parsed_http_api_configs, parsed_user_pool_configs, roles, role_idx,
                   lambda_functions, default_roles, fn_idx, lambda_map, rest_apis>>

\* the stack is built: app.synth() (app.py:178)
HttpEnd ==
    /\ pc = "http"
    /\ Len(http_apis) = Len(parsed_http_api_configs)
    /\ pc' = "done"
    /\ UNCHANGED <<handlerVars, run, ctx, prev, last_load, parsed_iam_role_configs,
                   parsed_lambda_function_configs, parsed_rest_api_configs,
                   parsed_http_api_configs, parsed_user_pool_configs, roles, role_idx,
                   lambda_functions, default_roles, fn_idx, lambda_map, rest_apis,
                   http_apis, log, raised>>

\* ------------------------------------------- the Function Resolver on its own

\* IamRoleConstruct's loop run to its end over role records that all have a name
RECURSIVE RolesFrom(_, _, _)
RolesFrom(iam_role_configs, i, acc) ==
    IF i > Len(iam_role_configs) THEN acc
    ELSE RolesFrom(iam_role_configs, i + 1,
             (iam_role_configs[i].role_name :> BuildRole(iam_role_configs[i]).role) @@ acc)

\* the role batches the resolver may follow: none, or the record of api-role.json
RoleBatches == {<<>>, <<load_iam_role_config(RolePath("api-role"), project_root).cfg>>}

FunctionNames == {"get-coffee", "create-coffee"}

\* function records (the service objects of function documents): every combination
\* of name, role reference and code path; two other runtimes with explicit timeout
\* and memory; one record for each way to lack a required field; and a runtime
\* written in capitals
FunctionRecords ==
    {Service(fn, role, "app.handler", "python3.13", zip, <<>>, <<>>) :
        fn \in FunctionNames, role \in {"api-role", "ghost-role", NoneV},
        zip \in {ZipRelOk, ZipAbsOk, ZipRelGone, ZipAbsGone}}
    \cup {Service("get-coffee", "api-role", "app.handler", rt, ZipRelOk, <<10>>, <<256>>) :
             rt \in {"Python3.9", "nodejs18.x"}}
    \cup {Service(fn, "ghost-role", "app.handler", "python3.13", ZipRelOk, <<>>, <<>>) :
             fn \in {NoneV, ""}}
    \cup {Service("get-coffee", "ghost-role", h, "python3.13", ZipRelOk, <<>>, <<>>) :
             h \in {NoneV, ""}}
    \cup {Service("get-coffee", "api-role", "app.handler", rt, ZipRelOk, <<>>, <<>>) :
             rt \in {NoneV, ""}}
    \cup {Service("create-coffee", "api-role", "app.handler", "python3.13", NoPath, <<>>, <<>>)}
    \cup {Service("create-coffee", NoneV, "app.handler", "PYTHON3.13", ZipAbsOk, <<>>, <<>>)}

\* the state in which LambdaFunctionConstruct starts: the role batch has been
\* resolved and the function batch is any list of records
InitFunctions ==
    /\ pc = "functions"
    /\ run = 1
    /\ ctx = <<>>
    /\ HandlerIdle
    /\ prev = OutputsOf("", "", <<>>, <<>>, <<>>, <<>>, <<>>)
    /\ parsed_iam_role_configs \in RoleBatches
    /\ parsed_lambda_function_configs \in SeqsUpTo(FunctionRecords, MaxRecords)
    /\ parsed_rest_api_configs = <<>>
    /\ parsed_http_api_configs = <<>>
    /\ parsed_user_pool_configs = <<>>
    /\ last_load = NoLoad
    /\ roles = RolesFrom(parsed_iam_role_configs, 1, <<>>)
    /\ role_idx = Len(parsed_iam_role_configs) + 1
    /\ lambda_functions = <<>>
    /\ default_roles = <<>>
    /\ fn_idx = 1
    /\ lambda_map = <<>>
    /\ rest_apis = <<>>
    /\ http_apis = <<>>
    /\ log = <<>>
    /\ raised = ""

NextFunctions ==
    \/ FunctionStep
    \/ FunctionsEnd

SpecFunctions == InitFunctions /\ [][NextFunctions]_vars

\* --------------------------------------------- the Route Resolvers on their own

\* LambdaFunctionConstruct's loop run to its end over records that have their
\* fields and their code and name no resolved role
RECURSIVE FunctionsFrom(_, _, _)
FunctionsFrom(function_configs, i, acc) ==
    IF i > Len(function_configs) THEN acc
    ELSE FunctionsFrom(function_configs, i + 1,
             (function_configs[i].function_name :>
                 Function(function_configs[i], ResolveRuntime(function_configs[i].runtime),
                          ResolveCodePath(function_configs[i].zip_file, project_root),
                          DefaultRole(function_configs[i].function_name), i)) @@ acc)

RouteFunction(fn) == Service(fn, NoneV, "app.handler", "python3.13", ZipRelOk, <<>>, <<>>)

\* the function batches the route resolvers may follow
FunctionBatches ==
    {<<>>,
     <<RouteFunction("get-coffee")>>,
     <<RouteFunction("create-coffee")>>,
     <<RouteFunction("list-orders")>>,
     <<RouteFunction("get-coffee"), RouteFunction("create-coffee")>>,
     <<RouteFunction("get-coffee"), RouteFunction("list-orders")>>,
     <<RouteFunction("create-coffee"), RouteFunction("list-orders")>>,
     <<RouteFunction("get-coffee"), RouteFunction("create-coffee"),
       RouteFunction("list-orders")>>}

CoffeeFunctions == <<RouteFunction("get-coffee"), RouteFunction("create-coffee")>>

\* the keys of a group's resources (or routes), in document order
EntryNames == <<"a", "b", "c">>

\* the dicts of at most max entries whose values are in cfgs
EntriesOver(cfgs, max) ==
    UNION {{[i \in 1..n |-> [k |-> EntryNames[i], v |-> values[i]]] :
               values \in [1..n -> cfgs]} : n \in 0..max}

Path(tokens) == <<tokens>>

\* REST resources that differ in their path (one GET method on get-coffee)
PathResources ==
    {Resource(path, <<<<"GET">>>>, <<>>, <<>>, FALSE, "get-coffee") :
        path \in {<<>>, Path(<<Slash, "a">>), Path(<<Slash, "a", Slash, "b">>),
                  Path(<<Slash, "a", Slash, "c">>), Path(<<"a", Slash, "b", Slash>>),
                  Path(<<Slash, "a", Slash, Slash, "b">>), Path(<<Slash>>), Path(<<>>),
                  Path(<<Slash, "b", Slash, "a">>)}}

\* the authorization mappings of a resource or route, for the authorizer name auth
Authorizations(auth) ==
    {<<>>,
     <<[k |-> "GET", v |-> auth]>>,
     <<[k |-> "GET", v |-> "ghost-auth"], [k |-> "POST", v |-> auth]>>,
     <<[k |-> "get", v |-> auth]>>}

MethodLists == {<<>>, <<<<"GET">>>>, <<<<"get", "POST">>>>, <<<<"OPTIONS", "post">>>>}

\* REST resources that differ in methods and authorization, and resources with
\* CORS that differ in the API-key list and the function they name
AuthResources ==
    {Resource(<<>>, methods, authorization, <<>>, FALSE, "get-coffee") :
        methods \in MethodLists, authorization \in Authorizations("token-auth")}
    \cup {Resource(<<>>, <<<<"GET", "OPTIONS">>>>, <<[k |-> "GET", v |-> "token-auth"]>>,
                   keys, TRUE, fn) :
             keys \in {<<"GET">>, <<"get">>}, fn \in {"get-coffee", "ghost-fn", NoneV}}

\* REST resources that differ in their methods and in their API-key list
KeyResources ==
    {Resource(<<>>, methods, <<>>, keys, FALSE, "get-coffee") :
        methods \in {<<<<"GET">>>>, <<<<"get", "POST">>>>},
        keys \in {<<>>, <<"GET">>, <<"get">>, <<"POST">>, <<"GET", "POST">>}}

HeaderSource == <<"method", "request", "header", "X-Token">>

QuerySource == <<"method", "request", "querystring", "token">>

OtherSource == <<"context", "identity", "sourceIp">>

\* a query-string parameter whose name contains "header"
BothSource == <<"method", "request", "querystring", "headers">>

\* the authorizers of a REST group: none, a TOKEN authorizer by default, a REQUEST
\* authorizer with a list of sources, an unknown type, an unknown function
RestAuthorizerSets ==
    {<<>>,
     <<[k |-> "token-auth", v |-> RestAuthorizer("get-coffee", NoneV, <<>>)]>>,
     <<[k |-> "token-auth",
        v |-> RestAuthorizer("create-coffee", "request",
                  <<[is_list |-> TRUE,
                     items |-> <<HeaderSource, QuerySource, OtherSource>>]>>)]>>,
     <<[k |-> "token-auth", v |-> RestAuthorizer("get-coffee", "basic", <<>>)]>>,
     <<[k |-> "token-auth", v |-> RestAuthorizer("ghost-fn", NoneV, <<>>)]>>}

\* authorizers that differ in the identity source
IdentityAuthorizerSets ==
    {<<[k |-> "token-auth", v |-> RestAuthorizer("get-coffee", type, <<source>>)]>> :
        type \in {"token", "REQUEST"},
        source \in {[is_list |-> FALSE, items |-> <<HeaderSource>>],
                    [is_list |-> FALSE, items |-> <<QuerySource>>],
                    [is_list |-> TRUE, items |-> <<QuerySource, HeaderSource>>],
                    [is_list |-> TRUE, items |-> <<OtherSource>>],
                    [is_list |-> FALSE, items |-> <<BothSource>>],
                    [is_list |-> TRUE, items |-> <<OtherSource, BothSource, HeaderSource>>]}}

UsagePlans ==
    {<<>>,
     <<UsagePlan(<<>>, <<>>, <<>>, NoneV)>>,
     <<UsagePlan(<<5>>, <<2>>, <<50>>, "week")>>,
     <<UsagePlan(<<>>, <<>>, <<>>, "DAY")>>,
     <<UsagePlan(<<5>>, <<>>, <<>>, "fortnight")>>}

GetResource == Resource(<<>>, <<<<"GET">>>>, <<[k |-> "GET", v |-> "token-auth"]>>, <<>>,
                        FALSE, "get-coffee")

GlobalUrl == "https://global.example.com"

RouteUrl == "https://route.example.com"

\* routes that differ in what they name as their target
TargetRoutes ==
    {Route(<<>>, <<>>, <<>>, fn, lambda, url) :
        fn \in {NoneV, "create-coffee", "ghost-fn"},
        lambda \in {NoLambda, LambdaRef("str", "list-orders"), LambdaRef("str", "ghost-fn"),
                    LambdaRef("dict", "list-orders"), LambdaRef("dict", NoneV)},
        url \in {NoneV, RouteUrl}}

\* routes that differ in methods and authorization, and a route without target
AuthRoutes ==
    {Route(<<>>, methods, authorization, "create-coffee", NoLambda, NoneV) :
        methods \in MethodLists \ {<<<<"OPTIONS", "post">>>>},
        authorization \in Authorizations("jwt")}
    \cup {Route(Path(<<Slash, "v1", Slash, "orders">>), <<<<"POST">>>>,
                <<[k |-> "POST", v |-> "jwt"]>>, "ghost-fn", NoLambda, NoneV)}

\* routes on create-coffee that differ in their path and methods; some paths share
\* segments, one ends with the separator
PathRoutes ==
    {Route(path, methods, <<>>, "create-coffee", NoLambda, NoneV) :
        path \in {<<>>, Path(<<Slash, "v1", Slash, "orders">>),
                  Path(<<Slash, "v1", Slash, "orders", Slash>>),
                  Path(<<Slash, "v1", Slash, "orders", Slash, "items">>)},
        methods \in {<<>>, <<<<"get", "POST">>>>}}

HttpAuthorizerSets ==
    {<<>>,
     <<[k |-> "jwt", v |-> HttpAuthorizer("get-coffee", NoneV, <<>>)]>>,
     <<[k |-> "jwt", v |-> HttpAuthorizer("get-coffee", "$request.header.X-Token", <<60>>)]>>,
     <<[k |-> "jwt", v |-> HttpAuthorizer("ghost-fn", NoneV, <<>>)]>>,
     <<[k |-> "jwt", v |-> HttpAuthorizer(NoneV, NoneV, <<>>)]>>}

\* what the route resolvers are handed: the function batch and the loaded REST and
\* simple-route groups
RouteInputs(functions, rest, http) ==
    /\ parsed_lambda_function_configs = functions
    /\ parsed_rest_api_configs = rest
    /\ parsed_http_api_configs = http

\* REST groups that differ in paths; in methods and authorization under each
\* authorizer set; in identity sources; in usage plan and name
RestScenarios ==
    \/ \E resources \in EntriesOver(PathResources, MaxResources) :
           RouteInputs(CoffeeFunctions, <<RestApi("coffee-rest", <<>>, resources, <<>>)>>, <<>>)
    \/ \E authorizers \in RestAuthorizerSets :
           \E resources \in EntriesOver(AuthResources, MaxResources) :
               RouteInputs(CoffeeFunctions,
                           <<RestApi("coffee-rest", authorizers, resources, <<>>)>>, <<>>)
    \/ \E resources \in EntriesOver(KeyResources, MaxResources) :
           RouteInputs(CoffeeFunctions, <<RestApi("coffee-rest", <<>>, resources, <<>>)>>, <<>>)
    \/ \E authorizers \in IdentityAuthorizerSets :
           RouteInputs(CoffeeFunctions,
                       <<RestApi("coffee-rest", authorizers, <<[k |-> "a", v |-> GetResource]>>,
                                 <<>>)>>, <<>>)
    \/ \E name \in {"coffee-rest", NoneV} :
           \E usage_plan \in UsagePlans :
               RouteInputs(CoffeeFunctions,
                           <<RestApi(name, <<>>, <<[k |-> "a", v |-> GetResource]>>,
                                     usage_plan)>>, <<>>)

\* simple-route groups whose one route is named get-coffee and differs in its
\* target, under each function batch and each way to declare the group's own URL;
\* groups that differ in authorizers, methods and authorization; a group without
\* name
HttpScenarios ==
    \/ \E functions \in FunctionBatches :
           \E route \in TargetRoutes :
               \E target \in {NoneV, "HTTP URI"} :
                   \E url \in {NoneV, GlobalUrl} :
                       RouteInputs(functions, <<>>,
                                   <<HttpApi("coffee-http", <<>>,
                                             <<[k |-> "get-coffee", v |-> route]>>,
                                             target, url)>>)
    \/ \E authorizers \in HttpAuthorizerSets :
           \E routes \in EntriesOver(AuthRoutes, MaxResources) :
               RouteInputs(CoffeeFunctions, <<>>,
                           <<HttpApi("shop-http", authorizers, routes, NoneV, NoneV)>>)
    \/ \E routes \in EntriesOver(PathRoutes, MaxResources) :
           RouteInputs(CoffeeFunctions, <<>>,
                       <<HttpApi("orders-http", <<>>, routes, NoneV, NoneV)>>)
    \/ RouteInputs(CoffeeFunctions, <<>>,
                   <<HttpApi(NoneV, <<>>,
                             <<[k |-> "a", v |-> Route(<<>>, <<>>, <<>>, "get-coffee",
                                                       NoLambda, NoneV)]>>,
                             NoneV, NoneV)>>)

\* one REST group and one simple-route group, each with one entry that names an
\* authorizer
MixedScenarios ==
    \E rest_authorizers \in {a \in RestAuthorizerSets : Len(a) = 1} :
        \E resource \in {r \in AuthResources : r.authorization # <<>> /\ ~r.cors_enabled} :
            \E http_authorizers \in {a \in HttpAuthorizerSets : Len(a) = 1} :
                \E route \in {r \in AuthRoutes : r.authorization # <<>>
                                                  /\ r.function_name # "ghost-fn"} :
                    RouteInputs(CoffeeFunctions,
                                <<RestApi("coffee-rest", rest_authorizers,
                                          <<[k |-> "a", v |-> resource]>>, <<>>)>>,
                                <<HttpApi("shop-http", http_authorizers,
                                          <<[k |-> "a", v |-> route]>>, NoneV, NoneV)>>)

\* the state in which the stack's REST loop starts: roles and functions are
\* resolved, the mapping is copied, the groups are those of any scenario
InitRoutes ==
    /\ pc = "rest"
    /\ run = 1
    /\ ctx = <<>>
    /\ HandlerIdle
    /\ prev = OutputsOf("", "", <<>>, <<>>, <<>>, <<>>, <<>>)
    /\ (RestScenarios \/ HttpScenarios \/ MixedScenarios)
    /\ parsed_iam_role_configs = <<>>
    /\ parsed_user_pool_configs = <<>>
    /\ last_load = NoLoad
    /\ roles = <<>>
    /\ role_idx = 1
    /\ lambda_functions = FunctionsFrom(parsed_lambda_function_configs, 1, <<>>)
    /\ default_roles = [i \in DOMAIN parsed_lambda_function_configs |->
                           DefaultRole(parsed_lambda_function_configs[i].function_name)]
    /\ fn_idx = Len(parsed_lambda_function_configs) + 1
    /\ lambda_map = lambda_functions
    /\ rest_apis = <<>>
    /\ http_apis = <<>>
    /\ log = <<>>
    /\ raised = ""

NextRoutes ==
    \/ RestStep
    \/ RestEnd
    \/ HttpStep
    \/ HttpEnd

SpecRoutes == InitRoutes /\ [][NextRoutes]_vars

\* ------------------------------------------------------------ specifications

Next ==
    \/ LoadRoles
    \/ LoadLambdas
    \/ LoadRest
    \/ LoadHttp
    \/ LoadPools
    \/ RoleStep
    \/ RolesEnd
    \/ FunctionStep
    \/ FunctionsEnd
    \/ RestStep
    \/ RestEnd
    \/ HttpStep
    \/ HttpEnd

Spec == Init /\ [][Next]_vars

\* the program run twice from the same context and the same disk: when run 1 has
\* ended, its outputs are kept in prev and a new process starts (app.py:121)
Rerun ==
    /\ run = 1
    /\ pc \in {"done", "aborted"}
    /\ prev' = OutputsOf(pc, raised, roles, lambda_functions, default_roles, rest_apis,
                         http_apis)
    /\ run' = 2
    /\ pc' = "load_roles"
    /\ parsed_iam_role_configs' = <<>>
    /\ parsed_lambda_function_configs' = <<>>
    /\ parsed_rest_api_configs' = <<>>
    /\ parsed_http_api_configs' = <<>>
    /\ parsed_user_pool_configs' = <<>>
    /\ last_load' = NoLoad
    /\ roles' = <<>>
    /\ role_idx' = 1
    /\ lambda_functions' = <<>>
    /\ default_roles' = <<>>
    /\ fn_idx' = 1
    /\ lambda_map' = <<>>
    /\ rest_apis' = <<>>
    /\ http_apis' = <<>>
    /\ log' = <<>>
    /\ raised' = ""
    /\ UNCHANGED <<ctx, handlerVars>>

NextTwice ==
    \/ Next
    \/ Rerun

SpecTwice == Init /\ [][NextTwice]_vars

\* ------------------------------------------------- the create handler deployed

\* one request to create_coffee: any body, any answer of the backend
CreateCoffee ==
    /\ pc = "done"
    /\ \E body \in Bodies :
           \E backend \in Backends :
               /\ last_call' = [called |-> TRUE, event |-> [body |-> body],
                                backend |-> backend, table |-> table]
               /\ response' = create_coffee([body |-> body], table, backend).response
               /\ table' = create_coffee([body |-> body], table, backend).table
    /\ UNCHANGED <<pc, run, ctx, prev, last_load, parsed_iam_role_configs,
                   parsed_lambda_function_configs, parsed_rest_api_configs,
                   parsed_http_api_configs, parsed_user_pool_configs, roles, role_idx,
                   lambda_functions, default_roles, fn_idx, lambda_map, rest_apis,
                   http_apis, log, raised>>

\* the handler after deployment: the synthesis is over, the table is empty
InitCreate ==
    /\ Fresh("done")
    /\ run = 1
    /\ ctx = <<>>
    /\ HandlerIdle
    /\ prev = OutputsOf("", "", <<>>, <<>>, <<>>, <<>>, <<>>)

NextCreate == CreateCoffee

SpecCreate == InitCreate /\ [][NextCreate]_vars

\* ------------------------------------------------------------------ C1

\* a path fails on its own: the file is missing, its content is malformed, or the
\* role transform meets a document that is no object
FailsAlone(loader_func, file_path) ==
    LET disk == CASE loader_func = "load_iam_role_config" -> RoleDisk
                  [] loader_func = "load_lambda_function_config" -> LambdaDisk
                  [] loader_func = "load_rest_api_config" -> RestDisk
                  [] loader_func = "load_http_api_config" -> HttpDisk
                  [] OTHER -> PoolDisk
        full_path == [file_path EXCEPT !.abs = TRUE, !.dirs = project_root \o file_path.dirs]
    IN  \/ full_path \notin DOMAIN disk
        \/ disk[full_path].st = "malformed"
        \/ loader_func = "load_iam_role_config" /\ disk[full_path].st = "notdict"

FailedPaths(loader_func, config_files) ==
    SelectSeq(config_files, LAMBDA file_path : FailsAlone(loader_func, file_path))

ResolversUntouched ==
    /\ roles = <<>>
    /\ role_idx = 1
    /\ lambda_functions = <<>>
    /\ default_roles = <<>>
    /\ fn_idx = 1
    /\ lambda_map = <<>>
    /\ rest_apis = <<>>
    /\ http_apis = <<>>

\* C1: load_config_files attempts every path of its list, in order.  If at least
\* one path fails, it raises one aggregate error whose message holds exactly the
\* failed paths, returns no record, and no resolver ever receives a record of the
\* batch: the program has ended with every resolver output empty.  If no path
\* fails, it raises nothing and returns one record per path.
C1_LoadAllOrNothing ==
    last_load.loader_func # "" =>
        /\ last_load.attempted = last_load.config_files
        /\ IF FailedPaths(last_load.loader_func, last_load.config_files) # <<>>
           THEN /\ last_load.raised = "FileNotFoundError"
                /\ last_load.message =
                       FailedPaths(last_load.loader_func, last_load.config_files)
                /\ last_load.returned = <<>>
                /\ pc = "aborted"
                /\ raised = "FileNotFoundError"
                /\ ResolversUntouched
                /\ \/ last_load.loader_func # "load_iam_role_config"
                   \/ parsed_iam_role_configs = <<>>
                /\ \/ last_load.loader_func # "load_lambda_function_config"
                   \/ parsed_lambda_function_configs = <<>>
                /\ \/ last_load.loader_func # "load_rest_api_config"
                   \/ parsed_rest_api_configs = <<>>
                /\ \/ last_load.loader_func # "load_http_api_config"
                   \/ parsed_http_api_configs = <<>>
           ELSE /\ last_load.raised = ""
                /\ Len(last_load.returned) = Len(last_load.config_files)

\* a batch of two paths whose first path failed and whose second path loaded
C1_Witness ==
    /\ last_load.raised = "FileNotFoundError"
    /\ Len(last_load.config_files) = 2
    /\ last_load.attempted = last_load.config_files
    /\ last_load.message = <<last_load.config_files[1]>>
    /\ \E i \in DOMAIN log : log[i].what = "loaded" /\ log[i].idx = 2
                             /\ log[i].name = last_load.config_files[2].stem

\* ------------------------------------------------------------------ C2

RoleResolverActs == roles' # roles \/ role_idx' # role_idx

FunctionResolverActs ==
    lambda_functions' # lambda_functions \/ default_roles' # default_roles \/ fn_idx' # fn_idx

RouteResolverActs == rest_apis' # rest_apis \/ http_apis' # http_apis

\* C2: a resolver step happens only when all five batches have been loaded without
\* an error; a Function Resolver step only when the Role Resolver has processed
\* every role record; a Route Resolver step only when the Function Resolver has
\* processed every function record; and once a batch has failed to load, no
\* resolver has produced or processed anything.
C2_StageOrder ==
    [][/\ (RoleResolverActs \/ FunctionResolverActs \/ RouteResolverActs) =>
              /\ DOMAIN ctx = Batches
              /\ ctx' = ctx
              /\ raised = ""
       /\ FunctionResolverActs =>
              /\ role_idx = Len(parsed_iam_role_configs) + 1
              /\ ~RoleResolverActs
       /\ RouteResolverActs =>
              /\ role_idx = Len(parsed_iam_role_configs) + 1
              /\ fn_idx = Len(parsed_lambda_function_configs) + 1
              /\ ~RoleResolverActs
              /\ ~FunctionResolverActs
       /\ raised' = "FileNotFoundError" => ResolversUntouched']_vars

\* a finished run in which each resolver has produced something
C2_Witness ==
    /\ pc = "done"
    /\ Cardinality(DOMAIN roles) = 2
    /\ DOMAIN lambda_functions # {}
    /\ rest_apis # <<>>
    /\ http_apis # <<>>

\* ------------------------------------------------------------------ C8

\* the loaded documents are: one role document named api-role without trust policy
\* and with one managed policy; one function document with all its fields that
\* references api-role and whose code exists; no REST group; one simple-route group
\* whose only route is named like the function, for GET, without authorization
C8_Scenario ==
    /\ DOMAIN ctx = Batches
    /\ last_load.raised = ""
    /\ Len(parsed_iam_role_configs) = 1
    /\ parsed_iam_role_configs[1].role_name = "api-role"
    /\ parsed_iam_role_configs[1].trust_policy = NoneV
    /\ Len(parsed_iam_role_configs[1].managed_policies) = 1
    /\ Len(parsed_lambda_function_configs) = 1
    /\ parsed_lambda_function_configs[1].role_name = "api-role"
    /\ parsed_lambda_function_configs[1].function_name \notin {NoneV, ""}
    /\ parsed_lambda_function_configs[1].handler \notin {NoneV, ""}
    /\ parsed_lambda_function_configs[1].runtime \notin {NoneV, ""}
    /\ parsed_lambda_function_configs[1].zip_file # NoPath
    /\ resolve_file_path(parsed_lambda_function_configs[1].zip_file, project_root) \in CodeDisk
    /\ parsed_rest_api_configs = <<>>
    /\ Len(parsed_http_api_configs) = 1
    /\ parsed_http_api_configs[1].name # NoneV
    /\ Len(parsed_http_api_configs[1].routes) = 1
    /\ parsed_http_api_configs[1].routes[1].k = parsed_lambda_function_configs[1].function_name
    /\ parsed_http_api_configs[1].routes[1].v.methods = <<<<"GET">>>>
    /\ parsed_http_api_configs[1].routes[1].v.authorization = <<>>

\* C8: in the scenario the run never aborts, and when it is done there is exactly
\* one role entity, named api-role; exactly one function entity, whose role is that
\* entity, and no default role; no REST group; and one simple-route group with
\* exactly one integration, of the function named like the route, and exactly one
\* route binding, for GET, onto that integration, without authorizer and with
\* authorization type NONE.
C8_EndToEnd ==
    C8_Scenario =>
        /\ pc # "aborted"
        /\ raised = ""
        /\ pc = "done" =>
              LET fn == parsed_lambda_function_configs[1].function_name
              IN  /\ DOMAIN roles = {"api-role"}
                  /\ roles["api-role"].role_name = <<"api-role">>
                  /\ DOMAIN lambda_functions = {fn}
                  /\ lambda_functions[fn].function_name = fn
                  /\ lambda_functions[fn].role = roles["api-role"]
                  /\ default_roles = <<>>
                  /\ rest_apis = <<>>
                  /\ Len(http_apis) = 1
                  /\ Len(http_apis[1].integrations) = 1
                  /\ http_apis[1].integrations[1].target =
                         [type |-> "lambda", fn |-> fn, url |-> NoneV]
                  /\ Len(http_apis[1].routes) = 1
                  /\ http_apis[1].routes[1].route = fn
                  /\ http_apis[1].routes[1].route_key.method = "GET"
                  /\ http_apis[1].routes[1].target = http_apis[1].integrations[1].id
                  /\ http_apis[1].routes[1].authorizer_id = <<>>
                  /\ http_apis[1].routes[1].authorization_type = "NONE"

C8_Witness ==
    /\ C8_Scenario
    /\ pc = "done"
    /\ Len(http_apis) = 1
    /\ Len(http_apis[1].routes) = 1

\* ------------------------------------------------------------------ C9

LacksRequiredField(rec) ==
    \/ rec.function_name \in {NoneV, ""}
    \/ rec.handler \in {NoneV, ""}
    \/ rec.runtime \in {NoneV, ""}
    \/ rec.zip_file = NoPath

\* the code path of a record, taken below the project root unless it is absolute
ResolvedCode(rec) ==
    IF rec.zip_file.abs THEN rec.zip_file
    ELSE [abs |-> TRUE, dirs |-> project_root \o rec.zip_file.dirs,
          stem |-> rec.zip_file.stem, ext |-> rec.zip_file.ext]

Creatable(rec) == ~LacksRequiredField(rec) /\ ResolvedCode(rec) \in CodeDisk

\* the records the Function Resolver has gone through
Processed == 1..(fn_idx - 1)

\* the entries of the output mapping made from record i
EntriesOf(i) == {n \in DOMAIN lambda_functions : lambda_functions[n].src = i}

HasDiag(stage, what, i) ==
    \E j \in DOMAIN log : log[j].stage = stage /\ log[j].what = what /\ log[j].idx = i

\* no record processed after record i could be created under the same name
LastOfItsName(i) ==
    \A j \in Processed :
        (j > i /\ Creatable(parsed_lambda_function_configs[j])) =>
            parsed_lambda_function_configs[j].function_name #
                parsed_lambda_function_configs[i].function_name

\* every record is gone through, and each processed record that has its fields and
\* its code is in the output mapping unless a later record took its name
BatchGoesOn ==
    /\ raised = ""
    /\ pc # "aborted"
    /\ pc # "functions" => fn_idx = Len(parsed_lambda_function_configs) + 1
    /\ \A i \in Processed :
           (Creatable(parsed_lambda_function_configs[i]) /\ LastOfItsName(i)) =>
               EntriesOf(i) = {parsed_lambda_function_configs[i].function_name}

\* C5: a processed function record that lacks function_name, handler, runtime or
\* zip_file (absent or empty) has no entry in the output mapping and has its skip
\* diagnostic; nothing is raised and the other records of the batch are processed.
C5_SkipIncomplete ==
    /\ \A i \in Processed :
           LacksRequiredField(parsed_lambda_function_configs[i]) =>
               /\ EntriesOf(i) = {}
               /\ HasDiag("functions", "skip_missing_fields", i)
    /\ BatchGoesOn

\* the batch is over: an incomplete record was skipped and a later one was created
C5_Witness ==
    /\ pc = "rest"
    /\ \E i, j \in Processed :
           /\ i < j
           /\ LacksRequiredField(parsed_lambda_function_configs[i])
           /\ EntriesOf(j) # {}

\* C6: the role of every function entity is the role stored under its record's
\* role_name when the Role Resolver's mapping has that name; otherwise it is a
\* default role made by the Function Resolver, named after the function, with the
\* basic-execution managed policy only and no inline policy.  Nothing is raised,
\* and a record with its fields and its code is created whatever its role_name.
C6_RoleOrDefault ==
    /\ \A n \in DOMAIN lambda_functions :
           LET rec == parsed_lambda_function_configs[lambda_functions[n].src]
           IN  IF rec.role_name \in DOMAIN roles
               THEN lambda_functions[n].role = roles[rec.role_name]
               ELSE /\ lambda_functions[n].role =
                          [role_name |-> <<rec.function_name, "-default-role">>,
                           assumed_by |-> LambdaPrincipal,
                           inline_policies |-> <<>>,
                           managed_policies |-> <<BasicExecutionPolicy>>]
                    /\ lambda_functions[n].role \in Range(default_roles)
    /\ BatchGoesOn

\* the batch is over with one function on a resolved role and one on a default role
C6_Witness ==
    /\ pc = "rest"
    /\ \E n, m \in DOMAIN lambda_functions :
           /\ parsed_lambda_function_configs[lambda_functions[n].src].role_name \in DOMAIN roles
           /\ lambda_functions[n].role \in Range(roles)
           /\ parsed_lambda_function_configs[lambda_functions[m].src].role_name = "ghost-role"
           /\ lambda_functions[m].role \in Range(default_roles)

\* C10: for a processed record with all required fields, the code path is the
\* given path when absolute and the path below the project root otherwise.  If no
\* file is there, the record has no entry in the output mapping (and its name is no
\* key unless another record of that name was created) and has its diagnostic; if
\* the file is there and no later record took the name, the entry's code is that
\* path.  No entity has any other code than its record's resolved path; nothing is
\* raised and the other records are processed.
C10_CodePath ==
    /\ \A i \in Processed :
           LET rec == parsed_lambda_function_configs[i]
           IN  ~LacksRequiredField(rec) =>
                   IF ResolvedCode(rec) \notin CodeDisk
                   THEN /\ EntriesOf(i) = {}
                        /\ HasDiag("functions", "skip_no_code", i)
                        /\ \/ rec.function_name \notin DOMAIN lambda_functions
                           \/ \E j \in Processed :
                                  /\ Creatable(parsed_lambda_function_configs[j])
                                  /\ parsed_lambda_function_configs[j].function_name =
                                         rec.function_name
                   ELSE LastOfItsName(i) =>
                            /\ rec.function_name \in DOMAIN lambda_functions
                            /\ lambda_functions[rec.function_name].src = i
                            /\ lambda_functions[rec.function_name].code = ResolvedCode(rec)
    /\ \A n \in DOMAIN lambda_functions :
           /\ lambda_functions[n].code \in CodeDisk
           /\ lambda_functions[n].code =
                  ResolvedCode(parsed_lambda_function_configs[lambda_functions[n].src])
    /\ BatchGoesOn

\* the batch is over: a record with a relative path to no file was skipped, its
\* name is no key, and a later record with a relative path was created
C10_Witness ==
    /\ pc = "rest"
    /\ \E i, j \in Processed :
           /\ i < j
           /\ ~LacksRequiredField(parsed_lambda_function_configs[i])
           /\ ~parsed_lambda_function_configs[i].zip_file.abs
           /\ ResolvedCode(parsed_lambda_function_configs[i]) \notin CodeDisk
           /\ parsed_lambda_function_configs[i].function_name \notin DOMAIN lambda_functions
           /\ ~parsed_lambda_function_configs[j].zip_file.abs
           /\ EntriesOf(j) # {}

\* ------------------------------------------------------------------ C3

\* what each of the five steps gives for a route, in the order of the steps; <<>>
\* where the step gives nothing
Candidates(fn_map, api_config, route_name, route_config, global_url_given) ==
    <<IF route_name \in DOMAIN fn_map
      THEN <<[type |-> "lambda", fn |-> route_name, url |-> NoneV]>> ELSE <<>>,
      IF route_config.function_name \in DOMAIN fn_map
      THEN <<[type |-> "lambda", fn |-> route_config.function_name, url |-> NoneV]>>
      ELSE <<>>,
      IF /\ route_config.lambda.form \in {"str", "dict"}
         /\ route_config.lambda.function_name \in DOMAIN fn_map
      THEN <<[type |-> "lambda", fn |-> route_config.lambda.function_name, url |-> NoneV]>>
      ELSE <<>>,
      IF global_url_given
      THEN <<[type |-> "http", fn |-> NoneV, url |-> api_config.url]>> ELSE <<>>,
      IF route_config.url \notin {NoneV, ""}
      THEN <<[type |-> "http", fn |-> NoneV, url |-> route_config.url]>> ELSE <<>>>>

\* the set holding the first candidate that gives something, if any
FirstMatch(candidates) ==
    {candidates[i][1] : i \in {j \in DOMAIN candidates :
                                 /\ candidates[j] # <<>>
                                 /\ \A h \in 1..(j - 1) : candidates[h] = <<>>}}

\* the targets of the integrations made for a route of a built group
TargetsOf(api, route_name) ==
    {api.integrations[j].target :
        j \in {h \in DOMAIN api.integrations : api.integrations[h].id[1] = route_name}}

UrlDeclared(api_config) == api_config.url \notin {NoneV, ""}

UrlDeclaredAsHttpUri(api_config) ==
    api_config.integration_target = "HTTP URI" /\ api_config.url \notin {NoneV, ""}

\* C3 as stated: the target of every route of every built simple-route group is
\* the first match of (1) the function named like the route, (2) the function
\* named by function_name, (3) the function named by lambda, (4) the group's URL,
\* (5) the route's url; a route without match has no integration.
C3_AsStated ==
    \A g \in DOMAIN http_apis :
        \A i \in DOMAIN parsed_http_api_configs[g].routes :
            TargetsOf(http_apis[g], parsed_http_api_configs[g].routes[i].k) =
                FirstMatch(Candidates(lambda_map, parsed_http_api_configs[g],
                                      parsed_http_api_configs[g].routes[i].k,
                                      parsed_http_api_configs[g].routes[i].v,
                                      UrlDeclared(parsed_http_api_configs[g])))

\* C3, amended: the same order, where step (4) gives the group's URL only when the
\* group also declares integration_target "HTTP URI".  In particular a route named
\* like a function of the mapping gets that function whatever its function_name,
\* and a name in steps 1-3 that is no key of the mapping gives nothing.
C3_FirstMatch ==
    \A g \in DOMAIN http_apis :
        \A i \in DOMAIN parsed_http_api_configs[g].routes :
            TargetsOf(http_apis[g], parsed_http_api_configs[g].routes[i].k) =
                FirstMatch(Candidates(lambda_map, parsed_http_api_configs[g],
                                      parsed_http_api_configs[g].routes[i].k,
                                      parsed_http_api_configs[g].routes[i].v,
                                      UrlDeclaredAsHttpUri(parsed_http_api_configs[g])))

\* a built group whose route is named like a function of the mapping, names
\* another function of the mapping in function_name, and got the first one
C3_Witness ==
    \E g \in DOMAIN http_apis :
        \E i \in DOMAIN parsed_http_api_configs[g].routes :
            /\ parsed_http_api_configs[g].routes[i].k \in DOMAIN lambda_map
            /\ parsed_http_api_configs[g].routes[i].v.function_name \in DOMAIN lambda_map
            /\ parsed_http_api_configs[g].routes[i].v.function_name #
                   parsed_http_api_configs[g].routes[i].k
            /\ TargetsOf(http_apis[g], parsed_http_api_configs[g].routes[i].k) =
                   {[type |-> "lambda", fn |-> parsed_http_api_configs[g].routes[i].k,
                     url |-> NoneV]}

\* ------------------------------------------------------------------ C4

\* the non-empty segments of a path, in order
Segments(tokens) == SelectSeq(tokens, LAMBDA t : t # Slash)

\* the path a resource declares: resource_path, or "/" and its name
DeclaredPath(resources, i) ==
    IF resources[i].v.resource_path = <<>> THEN <<Slash, resources[i].k>>
    ELSE resources[i].v.resource_path[1]

\* every non-empty prefix of the segments of every resource of a group
Prefixes(resources) ==
    UNION {{SubSeq(Segments(DeclaredPath(resources, i)), 1, n) :
               n \in 1..Len(Segments(DeclaredPath(resources, i)))} :
           i \in DOMAIN resources}

\* the segments from the root down to node n
RECURSIVE NodePath(_, _)
NodePath(nodes, n) ==
    IF n = 0 THEN <<>> ELSE Append(NodePath(nodes, nodes[n].parent), nodes[n].path_part)

\* C4: in every built REST group no two path nodes have the same path from the
\* root, the paths of the nodes are exactly the non-empty prefixes of the segments
\* of the group's resources, the group's prefix table sends each prefix to the node
\* of that path, and every method of a resource is bound at the node of the
\* resource's full path.
C4_OneNodePerPrefix ==
    \A g \in DOMAIN rest_apis :
        /\ \A m, n \in DOMAIN rest_apis[g].nodes :
               NodePath(rest_apis[g].nodes, m) = NodePath(rest_apis[g].nodes, n) => m = n
        /\ {NodePath(rest_apis[g].nodes, n) : n \in DOMAIN rest_apis[g].nodes} =
               Prefixes(parsed_rest_api_configs[g].resources)
        /\ DOMAIN rest_apis[g].created_resources =
               Prefixes(parsed_rest_api_configs[g].resources)
        /\ \A prefix \in DOMAIN rest_apis[g].created_resources :
               NodePath(rest_apis[g].nodes, rest_apis[g].created_resources[prefix]) = prefix
        /\ \A b \in DOMAIN rest_apis[g].methods :
               NodePath(rest_apis[g].nodes, rest_apis[g].methods[b].resource) =
                   Segments(DeclaredPath(parsed_rest_api_configs[g].resources,
                                         rest_apis[g].methods[b].src))

\* a built group with resources /a/b and /a/c: three nodes, one a below the root
\* and b and c below it
C4_Witness ==
    \E g \in DOMAIN rest_apis :
        /\ \E i, j \in DOMAIN parsed_rest_api_configs[g].resources :
               /\ DeclaredPath(parsed_rest_api_configs[g].resources, i) =
                      <<Slash, "a", Slash, "b">>
               /\ DeclaredPath(parsed_rest_api_configs[g].resources, j) =
                      <<Slash, "a", Slash, "c">>
        /\ Len(rest_apis[g].nodes) = 3
        /\ \E a, b, c \in DOMAIN rest_apis[g].nodes :
               /\ rest_apis[g].nodes[a] = [parent |-> 0, path_part |-> "a"]
               /\ rest_apis[g].nodes[b] = [parent |-> a, path_part |-> "b"]
               /\ rest_apis[g].nodes[c] = [parent |-> a, path_part |-> "c"]

\* ------------------------------------------------------------------ C7

\* the authorizer name an authorization mapping gives for a method, if any
NamedFor(authorization, method) ==
    {authorization[j].v : j \in {h \in DOMAIN authorization : authorization[h].k = method}}

\* a binding's authorizer and type against the mapping and the created authorizers
BoundAsNamed(authorization, created, method, authorizer, authorization_type) ==
    /\ Len(authorizer) <= 1
    /\ authorizer =
           IF \E name \in NamedFor(authorization, method) : name \in DOMAIN created
           THEN <<created[CHOOSE name \in NamedFor(authorization, method) :
                              name \in DOMAIN created]>>
           ELSE <<>>
    /\ authorization_type = "CUSTOM" <=> authorizer # <<>>
    /\ authorization_type = "NONE" <=> authorizer = <<>>

\* the methods a resource or route declares (or the default), upper-cased
DeclaredMethods(methods, default) ==
    {Upper(OptGet(methods, default)[j]) : j \in DOMAIN OptGet(methods, default)}

\* C7: every REST method binding and every simple-route binding has at most one
\* authorizer: the created authorizer stored under the name its resource's (route's)
\* authorization mapping gives for the upper-cased method, and none when no name is
\* given or the name is no created authorizer; its authorization type is CUSTOM
\* with an authorizer and NONE without.  Every declared method (but OPTIONS, for
\* REST) of a resource or route that has its target is bound, whatever is named.
C7_AuthorizerPerMethod ==
    /\ \A g \in DOMAIN rest_apis :
           /\ \A b \in DOMAIN rest_apis[g].methods :
                  BoundAsNamed(
                      parsed_rest_api_configs[g].resources[rest_apis[g].methods[b].src].v.authorization,
                      rest_apis[g].authorizer_map,
                      rest_apis[g].methods[b].method,
                      rest_apis[g].methods[b].authorizer,
                      rest_apis[g].methods[b].authorization_type)
           /\ \A i \in DOMAIN parsed_rest_api_configs[g].resources :
                  parsed_rest_api_configs[g].resources[i].v.function_name \in DOMAIN lambda_map =>
                      {rest_apis[g].methods[b].method :
                          b \in {h \in DOMAIN rest_apis[g].methods :
                                    rest_apis[g].methods[h].src = i}} =
                          DeclaredMethods(parsed_rest_api_configs[g].resources[i].v.methods,
                                          <<>>) \ {"OPTIONS"}
    /\ \A g \in DOMAIN http_apis :
           \A i \in DOMAIN parsed_http_api_configs[g].routes :
               /\ \A b \in DOMAIN http_apis[g].routes :
                      http_apis[g].routes[b].route = parsed_http_api_configs[g].routes[i].k =>
                          BoundAsNamed(
                              parsed_http_api_configs[g].routes[i].v.authorization,
                              http_apis[g].authorizers,
                              http_apis[g].routes[b].route_key.method,
                              http_apis[g].routes[b].authorizer_id,
                              http_apis[g].routes[b].authorization_type)
               /\ TargetsOf(http_apis[g], parsed_http_api_configs[g].routes[i].k) # {} =>
                      {http_apis[g].routes[b].route_key.method :
                          b \in {h \in DOMAIN http_apis[g].routes :
                                    http_apis[g].routes[h].route =
                                        parsed_http_api_configs[g].routes[i].k}} =
                          DeclaredMethods(parsed_http_api_configs[g].routes[i].v.methods,
                                          <<"GET">>)

\* a finished run with, in a REST group and in a simple-route group, one binding
\* with its named authorizer and one binding whose named authorizer was not created
C7_Witness ==
    /\ pc = "done"
    /\ \E g \in DOMAIN rest_apis :
           \E b, c \in DOMAIN rest_apis[g].methods :
               /\ rest_apis[g].methods[b].authorization_type = "CUSTOM"
               /\ rest_apis[g].methods[c].authorization_type = "NONE"
               /\ NamedFor(parsed_rest_api_configs[g].resources[rest_apis[g].methods[c].src].v.authorization,
                           rest_apis[g].methods[c].method) = {"ghost-auth"}
    /\ \E g \in DOMAIN http_apis :
           \E b, c \in DOMAIN http_apis[g].routes :
               /\ http_apis[g].routes[b].authorization_type = "CUSTOM"
               /\ http_apis[g].routes[c].authorization_type = "NONE"
               /\ NamedFor(parsed_http_api_configs[g].routes[1].v.authorization,
                           http_apis[g].routes[c].route_key.method) = {"ghost-auth"}

\* ------------------------------------------------------------------------ C11

\* the function a REST resource names is no key of the function mapping
NamesNoFunction(cfg) ==
    ~(Truthy(cfg.function_name) /\ cfg.function_name \in DOMAIN lambda_map)

\* C11 as stated: in every built REST group, a resource whose function_name is no
\* key of the function mapping has a diagnostic and nothing attached on its
\* account: no method, and no CORS preflight (the OPTIONS method), whatever its
\* methods list and cors_enabled flag say.
C11_SkippedEntirely ==
    \A g \in DOMAIN rest_apis :
        \A i \in DOMAIN parsed_rest_api_configs[g].resources :
            NamesNoFunction(parsed_rest_api_configs[g].resources[i].v) =>
                /\ \E d \in DOMAIN rest_apis[g].log :
                       rest_apis[g].log[d] =
                           Diag("rest", "skip_resource", i,
                                parsed_rest_api_configs[g].resources[i].k)
                /\ \A m \in DOMAIN rest_apis[g].methods : rest_apis[g].methods[m].src # i
                /\ \A c \in DOMAIN rest_apis[g].cors : rest_apis[g].cors[c].src # i

\* ------------------------------------------------------------------------ C12

\* the Role Resolver has run over the whole batch
RoleResolverDone == pc \in {"functions", "rest", "http", "done"}

\* C12 as stated: a role record whose construction fails (here: a record without
\* role_name) is logged and absorbed.  No error leaves the Role Resolver, and once
\* it is done every record that has a name has its entry in the name-to-role
\* mapping, whatever records came before it.
C12_ErrorAbsorbed ==
    /\ ~(pc = "aborted" /\ raised = "TypeError")
    /\ RoleResolverDone =>
           \A i \in DOMAIN parsed_iam_role_configs :
               parsed_iam_role_configs[i].role_name # NoneV =>
                   parsed_iam_role_configs[i].role_name \in DOMAIN roles

\* ------------------------------------------------------------------------ C13

\* record i is the last processed record of its role name: the entry of the
\* mapping under that name is the role made from it
LastRoleOfItsName(i) ==
    \A j \in (i + 1)..(role_idx - 1) :
        parsed_iam_role_configs[j].role_name # parsed_iam_role_configs[i].role_name

\* the trust the spec gives a role record: its trust-policy document when it has
\* one, the fixed service principal otherwise
SpecifiedTrust(role_data) ==
    IF role_data.trust_policy # NoneV THEN role_data.trust_policy ELSE LambdaPrincipal

\* C13 as stated: the role created from a record is assumed by what its
\* trust-policy document says when the record has one, and by the fixed service
\* principal only when it has none.
C13_TrustFromDocument ==
    \A i \in 1..(role_idx - 1) :
        (/\ parsed_iam_role_configs[i].role_name \in DOMAIN roles
         /\ LastRoleOfItsName(i)) =>
            roles[parsed_iam_role_configs[i].role_name].assumed_by =
                SpecifiedTrust(parsed_iam_role_configs[i])

\* ------------------------------------------------------------------------ C14

\* the minor version of each runtime of the supported-version table
MinorVersion ==
    ("PYTHON_3_13" :> 13) @@ ("PYTHON_3_10" :> 10) @@ ("PYTHON_3_9" :> 9) @@
    ("PYTHON_3_8" :> 8) @@ ("PYTHON_3_7" :> 7)

SupportedVersions == {runtime_map[k] : k \in DOMAIN runtime_map}

NewestSupported ==
    CHOOSE v \in SupportedVersions :
        \A w \in SupportedVersions : MinorVersion[w] <= MinorVersion[v]

\* the identifiers of the table that are the declared one but for letter case
TableMatches(runtime_str) == {k \in DOMAIN runtime_map : Lower(k) = Lower(runtime_str)}

\* C14: every function entity has the table's runtime for its record's identifier,
\* matched without regard to letter case, and no warning; or, when no identifier of
\* the table matches, the newest supported runtime and a warning.  A record that
\* has its fields and its code is created whatever its runtime identifier says.
C14_RuntimeFromTable ==
    /\ \A n \in DOMAIN lambda_functions :
           LET i == lambda_functions[n].src
               matches == TableMatches(parsed_lambda_function_configs[i].runtime)
           IN  IF matches # {}
               THEN /\ \A k \in matches : lambda_functions[n].runtime = runtime_map[k]
                    /\ ~HasDiag("functions", "unsupported_runtime", i)
               ELSE /\ lambda_functions[n].runtime = NewestSupported
                    /\ HasDiag("functions", "unsupported_runtime", i)
    /\ \A i \in Processed :
           (Creatable(parsed_lambda_function_configs[i]) /\ LastOfItsName(i)) =>
               EntriesOf(i) # {}

\* both cases in one batch: a function whose identifier is in the table but for
\* its letter case, and a function whose identifier is not in the table
C14_Witness ==
    /\ pc = "rest"
    /\ \E n \in DOMAIN lambda_functions :
           /\ parsed_lambda_function_configs[lambda_functions[n].src].runtime = "PYTHON3.13"
           /\ lambda_functions[n].runtime = "PYTHON_3_13"
           /\ ~HasDiag("functions", "unsupported_runtime", lambda_functions[n].src)
    /\ \E n \in DOMAIN lambda_functions :
           /\ parsed_lambda_function_configs[lambda_functions[n].src].runtime = "nodejs18.x"
           /\ lambda_functions[n].runtime = "PYTHON_3_13"
           /\ HasDiag("functions", "unsupported_runtime", lambda_functions[n].src)

\* ------------------------------------------------------------------------ C15

\* the kind an authorizer declares: TOKEN when it declares none, letter case aside
DeclaredKind(auth_cfg) == Upper(IF auth_cfg.type = NoneV THEN "TOKEN" ELSE auth_cfg.type)

\* the two conditions of an authorizer: its backing function is a key of the
\* function mapping, and its kind is TOKEN or REQUEST
BackedAndKnownKind(auth_cfg) ==
    /\ auth_cfg.function_name \in DOMAIN lambda_map
    /\ DeclaredKind(auth_cfg) \in {"TOKEN", "REQUEST"}

\* the declared authorizers of a group that fail one of the two conditions
SkippedAuthorizers(authorizers) ==
    {authorizers[a].k : a \in {h \in DOMAIN authorizers : ~BackedAndKnownKind(authorizers[h].v)}}

\* C15: in every built REST group the authorizer mapping has exactly the declared
\* authorizers whose backing function is a key of the function mapping and whose
\* kind is TOKEN or REQUEST; each other declared authorizer has a diagnostic, the
\* group is built all the same, and every declared method (but OPTIONS) of a
\* resource with a known function that names such an authorizer is bound, without
\* authorizer and with authorization type NONE.
C15_AuthorizerMapping ==
    \A g \in DOMAIN rest_apis :
        LET authorizers == parsed_rest_api_configs[g].authorizers
            resources == parsed_rest_api_configs[g].resources
        IN  /\ DOMAIN rest_apis[g].authorizer_map =
                   {authorizers[a].k : a \in DOMAIN authorizers} \ SkippedAuthorizers(authorizers)
            /\ \A a \in DOMAIN authorizers :
                   authorizers[a].k \in SkippedAuthorizers(authorizers) =>
                       \E d \in DOMAIN rest_apis[g].log :
                           rest_apis[g].log[d] =
                               Diag("rest", "skip_authorizer", a, authorizers[a].k)
            /\ \A i \in DOMAIN resources :
                   \A method \in DeclaredMethods(resources[i].v.methods, <<>>) \ {"OPTIONS"} :
                       (/\ ~NamesNoFunction(resources[i].v)
                        /\ NamedFor(resources[i].v.authorization, method) \cap
                               SkippedAuthorizers(authorizers) # {}) =>
                           /\ \E b \in DOMAIN rest_apis[g].methods :
                                  /\ rest_apis[g].methods[b].src = i
                                  /\ rest_apis[g].methods[b].method = method
                           /\ \A b \in DOMAIN rest_apis[g].methods :
                                  (/\ rest_apis[g].methods[b].src = i
                                   /\ rest_apis[g].methods[b].method = method) =>
                                      /\ rest_apis[g].methods[b].authorizer = <<>>
                                      /\ rest_apis[g].methods[b].authorization_type = "NONE"

\* a finished run with a group whose one authorizer has a known function and the
\* kind BASIC: the mapping is empty and the GET that names it is bound with NONE
C15_Witness ==
    /\ pc = "done"
    /\ \E g \in DOMAIN rest_apis :
           /\ Len(parsed_rest_api_configs[g].authorizers) = 1
           /\ parsed_rest_api_configs[g].authorizers[1].v.function_name \in DOMAIN lambda_map
           /\ DeclaredKind(parsed_rest_api_configs[g].authorizers[1].v) = "BASIC"
           /\ rest_apis[g].authorizer_map = <<>>
           /\ \E b \in DOMAIN rest_apis[g].methods :
                  /\ rest_apis[g].methods[b].authorization_type = "NONE"
                  /\ NamedFor(parsed_rest_api_configs[g].resources[rest_apis[g].methods[b].src].v.authorization,
                              rest_apis[g].methods[b].method) = {"token-auth"}

\* ------------------------------------------------------------------------ C16

\* the body is a JSON object (or absent) that carries all four attributes: the two
\* strings non-empty, price and available with any value
CarriesAllFour(body) ==
    /\ body.form = "object"
    /\ body.coffeeId \notin {NoneV, ""}
    /\ body.name \notin {NoneV, ""}
    /\ body.price # <<>>
    /\ body.available # NoneV

\* an item with the request's identifier was in the table when the request came
AlreadyExists == last_call.event.body.coffeeId \in last_call.table

\* C16 as stated, for requests whose body is absent or a JSON object and a backend
\* that answers with success or a client error: the call returns a response of the
\* shape {statusCode, headers: {Content-Type: application/json}, body: JSON text};
\* the status is 201 when the body carries all four attributes, no item with the
\* identifier exists and the backend raises no error; it is 409 if and only if an
\* attribute is missing or the item exists; it is 500 for every other backend error.
C16_CreateStatus ==
    (/\ last_call.called
     /\ last_call.event.body.form \in {"none", "object"}
     /\ last_call.backend \in {"ok", "ClientError"}) =>
        /\ response.raised = ""
        /\ Len(response.value) = 1
        /\ DOMAIN response.value[1] = {"statusCode", "headers", "body"}
        /\ response.value[1].headers = <<[k |-> "Content-Type", v |-> "application/json"]>>
        /\ DOMAIN response.value[1].body = {"json"}
        /\ (/\ CarriesAllFour(last_call.event.body)
            /\ ~AlreadyExists
            /\ last_call.backend = "ok") => response.value[1].statusCode = 201
        /\ response.value[1].statusCode = 409 <=>
               (~CarriesAllFour(last_call.event.body) \/ AlreadyExists)
        /\ (/\ CarriesAllFour(last_call.event.body)
            /\ ~AlreadyExists
            /\ last_call.backend = "ClientError") => response.value[1].statusCode = 500

\* ------------------------------------------------------------------------ C17

\* the group declares a usage plan whose period is no member of the period enum
PeriodUnrecognized(api_cfg) ==
    /\ api_cfg.usage_plan # <<>>
    /\ api_cfg.usage_plan[1].period # NoneV
    /\ Upper(api_cfg.usage_plan[1].period) \notin {"DAY", "WEEK", "MONTH"}

\* C17 as stated: a REST group whose usage-plan period is unrecognized does not
\* abort the run; the group is built with its usage plan, whose period is a member
\* of the enum (the fallback).
C17_PeriodFallback ==
    \A g \in DOMAIN parsed_rest_api_configs :
        PeriodUnrecognized(parsed_rest_api_configs[g]) =>
            /\ ~(pc = "aborted" /\ Len(rest_apis) = g - 1)
            /\ g \in DOMAIN rest_apis =>
                   /\ rest_apis[g].usage_plan # <<>>
                   /\ rest_apis[g].usage_plan[1].period \in {"DAY", "WEEK", "MONTH"}

\* ------------------------------------------------------------------------ C18

\* the role file holds a JSON object; the policy file holds JSON
RoleDocumentLoads(file_path) ==
    /\ OnDisk(file_path) \in DOMAIN RoleDisk
    /\ RoleDisk[OnDisk(file_path)].st = "json"

PolicyLoads(policy_path) ==
    /\ OnDisk(policy_path) \in DOMAIN PolicyDisk
    /\ PolicyDisk[OnDisk(policy_path)].st = "json"

\* the record made of a role document says what the claim says of it: its trust
\* policy is the trust file's document, or absent when there is no trust path or
\* the file fails to load; its inline policies are the documents of the inline
\* files that load, each under its file's base name without extension
RecordOfDocument(rec, doc) ==
    /\ rec.role_name = doc.role_name
    /\ rec.managed_policies = doc.managed_policies
    /\ rec.trust_policy =
           IF doc.trust_policy_path # NoPath /\ PolicyLoads(doc.trust_policy_path)
           THEN PolicyDisk[OnDisk(doc.trust_policy_path)].doc
           ELSE NoneV
    /\ {<<rec.inline_policies[e].k, rec.inline_policies[e].v>> :
           e \in DOMAIN rec.inline_policies} =
       {<<doc.inline_policy_files[j].stem, PolicyDisk[OnDisk(doc.inline_policy_files[j])].doc>> :
           j \in {h \in DOMAIN doc.inline_policy_files :
                     PolicyLoads(doc.inline_policy_files[h])}}

\* C18: after the role batch is loaded, no role file that holds a JSON object is
\* among the failed paths, whatever its policy files do; and when the batch
\* succeeds each record is made of its document as the claim says: trust policy
\* absent when its file fails, inline policies of the files that load only.
C18_PolicyFailuresNotFatal ==
    last_load.loader_func = "load_iam_role_config" =>
        /\ \A i \in DOMAIN last_load.config_files :
               RoleDocumentLoads(last_load.config_files[i]) =>
                   last_load.config_files[i] \notin Range(last_load.message)
        /\ last_load.raised = "" =>
               /\ Len(last_load.returned) = Len(last_load.config_files)
               /\ \A i \in DOMAIN last_load.config_files :
                      RecordOfDocument(last_load.returned[i],
                                       RoleDisk[OnDisk(last_load.config_files[i])].doc)

\* a loaded batch of two role documents: the trust policy of one is malformed, an
\* inline policy of the other is not on the disk while another one loads
C18_Witness ==
    /\ pc = "load_lambdas"
    /\ last_load.raised = ""
    /\ \E i, j \in DOMAIN last_load.config_files :
           /\ ~PolicyLoads(RoleDisk[OnDisk(last_load.config_files[i])].doc.trust_policy_path)
           /\ RoleDisk[OnDisk(last_load.config_files[i])].doc.trust_policy_path # NoPath
           /\ parsed_iam_role_configs[i].trust_policy = NoneV
           /\ \E h \in DOMAIN RoleDisk[OnDisk(last_load.config_files[j])].doc.inline_policy_files :
                  ~PolicyLoads(RoleDisk[OnDisk(last_load.config_files[j])].doc.inline_policy_files[h])
           /\ Len(parsed_iam_role_configs[j].inline_policies) = 1

\* ------------------------------------------------------------------------ C19

\* the route groups built so far are the ones the constructs build from the
\* function mapping as the Function Resolver left it
ResolvedAgainst(fn_map) ==
    /\ \A g \in DOMAIN rest_apis :
           rest_apis[g] = BuildRestApi(fn_map, parsed_rest_api_configs[g]).api
    /\ \A g \in DOMAIN http_apis :
           http_apis[g] = BuildHttpApi(fn_map, parsed_http_api_configs[g]).api

\* C19: no stage changes a mapping produced by an earlier stage. A step of the
\* Function Resolver leaves the role mapping as it is; a step of a REST or HTTP
\* route resolver leaves the function mapping, the stack's copy of it and the role
\* mapping as they are; so every route group built, whatever its position, is the
\* group built from the function mapping as the Function Resolver left it.
C19_EarlierMappingsUnchanged ==
    /\ [](pc \in {"rest", "http", "done"} =>
             /\ lambda_map = lambda_functions
             /\ ResolvedAgainst(lambda_functions))
    /\ [][/\ pc = "functions" => roles' = roles
          /\ pc \in {"rest", "http"} =>
                 /\ lambda_map' = lambda_map
                 /\ lambda_functions' = lambda_functions
                 /\ roles' = roles]_vars

\* the whole stack is built: roles, functions (one of them on a default role that
\* the role mapping does not hold), a REST group with a method and, after it, an
\* HTTP group with a route integrated with a function
C19_Witness ==
    /\ pc = "done"
    /\ DOMAIN roles # {}
    /\ DOMAIN lambda_functions # {}
    /\ default_roles # <<>>
    /\ Len(rest_apis) = 1 /\ rest_apis[1].methods # <<>>
    /\ Len(http_apis) = 1
    /\ \E g \in DOMAIN http_apis[1].integrations :
           /\ http_apis[1].integrations[g].target.type = "lambda"
           /\ http_apis[1].integrations[g].id[1] \notin DOMAIN lambda_functions

\* ------------------------------------------------------------------------ C20

\* none of the five steps gives a target for the route: no function is named like
\* the route, function_name and the lambda reference name no function of the
\* mapping, the group declares no URL as its "HTTP URI" target, the route has no url
NoStepMatches(fn_map, api_config, route_name, route_config) ==
    /\ route_name \notin DOMAIN fn_map
    /\ route_config.function_name \notin DOMAIN fn_map
    /\ ~(/\ route_config.lambda.form \in {"str", "dict"}
         /\ route_config.lambda.function_name \in DOMAIN fn_map)
    /\ ~UrlDeclaredAsHttpUri(api_config)
    /\ route_config.url \in {NoneV, ""}

\* the method bindings of a built group made for a route
BindingsOf(api, route_name) ==
    {j \in DOMAIN api.routes : api.routes[j].route = route_name}

SkipDiagnostics(api, i, route_name) ==
    {j \in DOMAIN api.log : api.log[j] = Diag("http", "skip_route", i, route_name)}

\* C20: in every simple-route group handed to the resolver that has a name, a
\* route for which none of the five steps matches does not stop the group from
\* being built (no error is raised); the built group has a skip diagnostic for
\* it, no integration and no method binding for it; and every other route of the
\* group, the later ones included, has its integration and a binding for each
\* method it declares.
C20_UnmatchedRouteSkipped ==
    \A g \in DOMAIN parsed_http_api_configs :
        LET api_config == parsed_http_api_configs[g]
            unmatched == {i \in DOMAIN api_config.routes :
                             NoStepMatches(lambda_map, api_config, api_config.routes[i].k,
                                           api_config.routes[i].v)}
        IN  (api_config.name # NoneV /\ unmatched # {}) =>
                /\ BuildHttpApi(lambda_map, api_config).err = ""
                /\ (pc = "aborted" /\ raised # "") => g # Len(http_apis) + 1
                /\ g \in DOMAIN http_apis =>
                       /\ \A i \in unmatched :
                              /\ SkipDiagnostics(http_apis[g], i, api_config.routes[i].k) # {}
                              /\ TargetsOf(http_apis[g], api_config.routes[i].k) = {}
                              /\ BindingsOf(http_apis[g], api_config.routes[i].k) = {}
                       /\ \A j \in DOMAIN api_config.routes \ unmatched :
                              /\ SkipDiagnostics(http_apis[g], j, api_config.routes[j].k) = {}
                              /\ Cardinality(TargetsOf(http_apis[g], api_config.routes[j].k)) = 1
                              /\ Cardinality(BindingsOf(http_apis[g], api_config.routes[j].k)) =
                                     Len(OptGet(api_config.routes[j].v.methods, <<"GET">>))

\* a built group of two routes: the first has no target, the second, after it, is
\* integrated and bound
C20_Witness ==
    \E g \in DOMAIN http_apis :
        /\ Len(parsed_http_api_configs[g].routes) = 2
        /\ NoStepMatches(lambda_map, parsed_http_api_configs[g],
                         parsed_http_api_configs[g].routes[1].k,
                         parsed_http_api_configs[g].routes[1].v)
        /\ SkipDiagnostics(http_apis[g], 1, parsed_http_api_configs[g].routes[1].k) # {}
        /\ TargetsOf(http_apis[g], parsed_http_api_configs[g].routes[2].k) # {}
        /\ BindingsOf(http_apis[g], parsed_http_api_configs[g].routes[2].k) # {}
        /\ pc = "done"

\* ------------------------------------------------------------------------ C21

\* the bindings and the preflight configurations of a built REST group made for
\* its resource i
MethodsFor(api, i) == {b \in DOMAIN api.methods : api.methods[b].src = i}

PreflightsFor(api, i) == {c \in DOMAIN api.cors : api.cors[c].src = i}

\* the node of the full path a resource declares (0 is the root)
PathNode(api, resources, i) ==
    IF Segments(DeclaredPath(resources, i)) = <<>> THEN 0
    ELSE api.created_resources[Segments(DeclaredPath(resources, i))]

\* C21: in every built REST group, for every resource whose function is a key of
\* the function mapping, the bindings made for it are one per upper-cased declared
\* method other than OPTIONS and no other, each at the node of the resource's
\* path and each integrated with the resource's function; no binding of the group
\* is an OPTIONS binding; and one preflight configuration is attached at that node
\* for the resource when its cors_enabled flag is set, none when it is not.
C21_MethodsAndPreflight ==
    \A g \in DOMAIN rest_apis :
        /\ \A b \in DOMAIN rest_apis[g].methods : rest_apis[g].methods[b].method # "OPTIONS"
        /\ \A i \in DOMAIN parsed_rest_api_configs[g].resources :
               LET cfg == parsed_rest_api_configs[g].resources[i].v
                   node == PathNode(rest_apis[g], parsed_rest_api_configs[g].resources, i)
               IN  ~NamesNoFunction(cfg) =>
                       /\ {rest_apis[g].methods[b].method : b \in MethodsFor(rest_apis[g], i)} =
                              DeclaredMethods(cfg.methods, <<>>) \ {"OPTIONS"}
                       /\ Cardinality(MethodsFor(rest_apis[g], i)) =
                              Cardinality(DeclaredMethods(cfg.methods, <<>>) \ {"OPTIONS"})
                       /\ \A b \in MethodsFor(rest_apis[g], i) :
                              /\ rest_apis[g].methods[b].resource = node
                              /\ rest_apis[g].methods[b].integration = cfg.function_name
                       /\ Cardinality(PreflightsFor(rest_apis[g], i)) =
                              (IF cfg.cors_enabled THEN 1 ELSE 0)
                       /\ \A c \in PreflightsFor(rest_apis[g], i) :
                              rest_apis[g].cors[c].resource = node

\* a built group with a resource that declares OPTIONS beside another method and
\* sets cors_enabled, and a resource that declares lower-case methods without CORS
C21_Witness ==
    \E g \in DOMAIN rest_apis :
        \E i, j \in DOMAIN parsed_rest_api_configs[g].resources :
            /\ ~NamesNoFunction(parsed_rest_api_configs[g].resources[i].v)
            /\ ~NamesNoFunction(parsed_rest_api_configs[g].resources[j].v)
            /\ parsed_rest_api_configs[g].resources[i].v.cors_enabled
            /\ "OPTIONS" \in DeclaredMethods(parsed_rest_api_configs[g].resources[i].v.methods, <<>>)
            /\ Cardinality(MethodsFor(rest_apis[g], i)) = 1
            /\ PreflightsFor(rest_apis[g], i) # {}
            /\ ~parsed_rest_api_configs[g].resources[j].v.cors_enabled
            /\ parsed_rest_api_configs[g].resources[j].v.methods = <<<<"get", "POST">>>>
            /\ Cardinality(MethodsFor(rest_apis[g], j)) = 2
            /\ PreflightsFor(rest_apis[g], j) = {}

\* ------------------------------------------------------------------------ C22

\* the integrations of a built group made for a route
IntegrationsOf(api, route_name) ==
    {h \in DOMAIN api.integrations : api.integrations[h].id[1] = route_name}

\* the route keys a route declares: one per method of its list (GET when it has
\* none), upper-cased, with its resource_path as written ("/" and the route's name
\* when it has none)
DeclaredRouteKeys(route_name, route_config) ==
    {[method |-> m,
      path |-> IF route_config.resource_path = <<>> THEN <<Slash, route_name>>
               ELSE route_config.resource_path[1]] :
        m \in DeclaredMethods(route_config.methods, <<"GET">>)}

\* C22: in every built simple-route group, every route for which a step matches
\* has exactly one integration and exactly one binding per declared method (GET
\* when methods is absent); the route keys of its bindings are the upper-cased
\* methods with the route's resource_path as written (default "/<route name>"),
\* also when another route declares the same path or a prefix of it; and each
\* binding targets the route's one integration.
C22_OneIntegrationPerRoute ==
    \A g \in DOMAIN http_apis :
        \A i \in DOMAIN parsed_http_api_configs[g].routes :
            LET route_name == parsed_http_api_configs[g].routes[i].k
                route_config == parsed_http_api_configs[g].routes[i].v
            IN  ~NoStepMatches(lambda_map, parsed_http_api_configs[g], route_name, route_config) =>
                    /\ Cardinality(IntegrationsOf(http_apis[g], route_name)) = 1
                    /\ Cardinality(BindingsOf(http_apis[g], route_name)) =
                           Len(OptGet(route_config.methods, <<"GET">>))
                    /\ {http_apis[g].routes[b].route_key :
                           b \in BindingsOf(http_apis[g], route_name)} =
                       DeclaredRouteKeys(route_name, route_config)
                    /\ \A b \in BindingsOf(http_apis[g], route_name) :
                           \A h \in IntegrationsOf(http_apis[g], route_name) :
                               http_apis[g].routes[b].target = http_apis[g].integrations[h].id

\* a built group of two routes that declare the same path, each with two methods:
\* two integrations and four bindings, two for each route key
C22_Witness ==
    \E g \in DOMAIN http_apis :
        /\ Len(parsed_http_api_configs[g].routes) = 2
        /\ parsed_http_api_configs[g].routes[1].v.resource_path =
               Path(<<Slash, "v1", Slash, "orders">>)
        /\ parsed_http_api_configs[g].routes[2].v.resource_path =
               Path(<<Slash, "v1", Slash, "orders">>)
        /\ parsed_http_api_configs[g].routes[1].v.methods = <<<<"get", "POST">>>>
        /\ parsed_http_api_configs[g].routes[2].v.methods = <<<<"get", "POST">>>>
        /\ Len(http_apis[g].integrations) = 2
        /\ Len(http_apis[g].routes) = 4
        /\ \E b, c \in DOMAIN http_apis[g].routes :
               /\ b # c
               /\ http_apis[g].routes[b].route_key = http_apis[g].routes[c].route_key
               /\ http_apis[g].routes[b].target # http_apis[g].routes[c].target

\* ------------------------------------------------------------------------ C23

\* the API-key list of the resource a binding was made for
KeyListOf(g, b) ==
    parsed_rest_api_configs[g].resources[rest_apis[g].methods[b].src].v.require_api_key

\* C23: every REST method binding requires an API key exactly when its method
\* name, the upper-cased declared method, is an entry of its resource's
\* require_api_key list (no entry when the list is absent); so two bindings of one
\* resource may differ in the flag, and two bindings of the same method whose
\* resources have the same list agree, whatever other methods the resources
\* declare.
C23_ApiKeyPerMethod ==
    \A g \in DOMAIN rest_apis :
        /\ \A b \in DOMAIN rest_apis[g].methods :
               rest_apis[g].methods[b].api_key_required =
                   (\E k \in DOMAIN KeyListOf(g, b) :
                        KeyListOf(g, b)[k] = rest_apis[g].methods[b].method)
        /\ \A b, c \in DOMAIN rest_apis[g].methods :
               (/\ rest_apis[g].methods[b].method = rest_apis[g].methods[c].method
                /\ KeyListOf(g, b) = KeyListOf(g, c)) =>
                   rest_apis[g].methods[b].api_key_required =
                       rest_apis[g].methods[c].api_key_required

\* a built group with a resource that declares get and POST and lists GET only
\* (GET asks for a key, POST does not), and a resource that declares GET and
\* lists it in lower case (no key)
C23_Witness ==
    \E g \in DOMAIN rest_apis :
        \E b, c, d \in DOMAIN rest_apis[g].methods :
            /\ rest_apis[g].methods[b].src = rest_apis[g].methods[c].src
            /\ KeyListOf(g, b) = <<"GET">>
            /\ rest_apis[g].methods[b].method = "GET"
            /\ rest_apis[g].methods[b].api_key_required
            /\ rest_apis[g].methods[c].method = "POST"
            /\ ~rest_apis[g].methods[c].api_key_required
            /\ KeyListOf(g, d) = <<"get">>
            /\ rest_apis[g].methods[d].method = "GET"
            /\ ~rest_apis[g].methods[d].api_key_required

\* ------------------------------------------------------------------------ C24

\* the identity-source strings an authorizer declares, in order: the strings of
\* its list, its one string, or the default string when it declares none
SourceStrings(auth_cfg) ==
    IF auth_cfg.identity_source = <<>> THEN <<DefaultIdentitySource>>
    ELSE auth_cfg.identity_source[1].items

\* the identity source the claim gives for one string
ClassifiedAsClaimed(built, source) ==
    /\ built.source = source
    /\ Contains(source, "header") =>
           built.in = "header" /\ built.name = source[Len(source)]
    /\ (~Contains(source, "header") /\ Contains(source, "querystring")) =>
           built.in = "query_string" /\ built.name = source[Len(source)]
    /\ (~Contains(source, "header") /\ ~Contains(source, "querystring")) =>
           built.in = "header" /\ built.name = "Authorization"

\* C24: in every built REST group, a created authorizer of kind REQUEST has one
\* identity source per declared string (one for a single string), in the order of
\* the strings, each classified on its own: a header named by the last component
\* when the string contains "header", else a query string named by the last
\* component when it contains "querystring", else the header Authorization.  A
\* created authorizer of kind TOKEN has one identity source: the first declared
\* string, unclassified.
C24_IdentitySources ==
    \A g \in DOMAIN rest_apis :
        \A a \in DOMAIN parsed_rest_api_configs[g].authorizers :
            LET auth_name == parsed_rest_api_configs[g].authorizers[a].k
                auth_cfg == parsed_rest_api_configs[g].authorizers[a].v
                strings == SourceStrings(auth_cfg)
            IN  auth_name \in DOMAIN rest_apis[g].authorizer_map =>
                    LET built == rest_apis[g].authorizer_map[auth_name]
                    IN  /\ built.kind = DeclaredKind(auth_cfg)
                        /\ built.kind = "REQUEST" =>
                               /\ Len(built.identity_sources) = Len(strings)
                               /\ \A i \in DOMAIN strings :
                                      ClassifiedAsClaimed(built.identity_sources[i], strings[i])
                        /\ built.kind = "TOKEN" =>
                               built.identity_sources =
                                   <<[in |-> "raw", name |-> NoneV, source |-> strings[1]]>>

\* a built group with a REQUEST authorizer over a list of three strings: one names
\* neither, one a query-string parameter whose name contains "header", one a header
C24_Witness ==
    \E g \in DOMAIN rest_apis :
        \E n \in DOMAIN rest_apis[g].authorizer_map :
            /\ rest_apis[g].authorizer_map[n].kind = "REQUEST"
            /\ Len(rest_apis[g].authorizer_map[n].identity_sources) = 3
            /\ rest_apis[g].authorizer_map[n].identity_sources[1] =
                   [in |-> "header", name |-> "Authorization", source |-> OtherSource]
            /\ rest_apis[g].authorizer_map[n].identity_sources[2] =
                   [in |-> "header", name |-> "headers", source |-> BothSource]
            /\ rest_apis[g].authorizer_map[n].identity_sources[3] =
                   [in |-> "header", name |-> "X-Token", source |-> HeaderSource]

\* ------------------------------------------------------------------------ C25

\* the role records the Role Resolver's loop has gone through
RolesProcessed == 1..(role_idx - 1)

\* record j is the later of two processed records that carry the same name, and
\* no record after it carries that name
LaterOfTwo(i, j) ==
    /\ i < j
    /\ parsed_iam_role_configs[i].role_name # NoneV
    /\ parsed_iam_role_configs[i].role_name = parsed_iam_role_configs[j].role_name
    /\ LastRoleOfItsName(j)

\* the entity is the one made of the record: its name, its inline policies and
\* the identifiers of its managed policies, in the record's order
MadeOfRecord(role, role_data) ==
    /\ role.role_name = <<role_data.role_name>>
    /\ role.inline_policies = role_data.inline_policies
    /\ Len(role.managed_policies) = Len(role_data.managed_policies)
    /\ \A m \in DOMAIN role_data.managed_policies :
           role.managed_policies[m] = role_data.managed_policies[m].v

CreatedOnDefaultRole ==
    {i \in Processed :
        /\ Creatable(parsed_lambda_function_configs[i])
        /\ parsed_lambda_function_configs[i].role_name \notin DOMAIN roles}

\* C26 as stated: the Function Resolver synthesizes a default role only for a
\* record whose function it constructs: there are as many default roles as
\* constructed functions with an unresolved role, each named after one of them.  A
\* record skipped for a missing field or for a code path that does not exist
\* leaves no default role behind.
C26_NoDefaultRoleForSkipped ==
    /\ Len(default_roles) = Cardinality(CreatedOnDefaultRole)
    /\ \A d \in DOMAIN default_roles :
           \E i \in CreatedOnDefaultRole :
               default_roles[d].role_name =
                   <<parsed_lambda_function_configs[i].function_name, "-default-role">>

\* ------------------------------------------------------------------------ C27

\* one of the three function steps matches the route
FunctionMatches(fn_map, route_name, route_config) ==
    \/ route_name \in DOMAIN fn_map
    \/ route_config.function_name \in DOMAIN fn_map
    \/ /\ route_config.lambda.form \in {"str", "dict"}
       /\ route_config.lambda.function_name \in DOMAIN fn_map

\* the target that is an external URL
UrlTarget(url) == [type |-> "http", fn |-> NoneV, url |-> url]

\* C27: in every built simple-route group, a route is integrated with the group's
\* url (where that is not also its own url) only if the group declares
\* integration_target "HTTP URI" and a non-empty url.  In a group that declares a
\* url without that integration_target, a route that no function step matches is
\* integrated with its own url when it has one, and otherwise has its skip
\* diagnostic and no integration.
C27_GlobalUrlOnlyAsHttpUri ==
    \A g \in DOMAIN http_apis :
        \A i \in DOMAIN parsed_http_api_configs[g].routes :
            LET api_config == parsed_http_api_configs[g]
                route_name == api_config.routes[i].k
                route_config == api_config.routes[i].v
                targets == TargetsOf(http_apis[g], route_name)
            IN  /\ (/\ UrlTarget(api_config.url) \in targets
                    /\ route_config.url # api_config.url) =>
                       /\ api_config.integration_target = "HTTP URI"
                       /\ api_config.url \notin {NoneV, ""}
                /\ (/\ UrlDeclared(api_config)
                    /\ api_config.integration_target # "HTTP URI"
                    /\ ~FunctionMatches(lambda_map, route_name, route_config)) =>
                       IF route_config.url \notin {NoneV, ""}
                       THEN targets = {UrlTarget(route_config.url)}
                       ELSE /\ targets = {}
                            /\ SkipDiagnostics(http_apis[g], i, route_name) # {}

\* a built group that declares a url without integration_target, whose route has
\* no function match and is integrated with its own url
C27_Witness ==
    \E g \in DOMAIN http_apis :
        \E i \in DOMAIN parsed_http_api_configs[g].routes :
            /\ parsed_http_api_configs[g].url = GlobalUrl
            /\ parsed_http_api_configs[g].integration_target = NoneV
            /\ ~FunctionMatches(lambda_map, parsed_http_api_configs[g].routes[i].k,
                                parsed_http_api_configs[g].routes[i].v)
            /\ parsed_http_api_configs[g].routes[i].v.url = RouteUrl
            /\ TargetsOf(http_apis[g], parsed_http_api_configs[g].routes[i].k) =
                   {UrlTarget(RouteUrl)}

====
